---- MODULE Spec2Model ----
(***************************************************************************)
(* Notification engine of ride-monitor-backend (src/disneyDiningService.js) *)
(*                                                                         *)
(* The server keeps its state in module-level maps (lines 192-216) that    *)
(* are read and written by the cron callbacks (lines 1365-1379), by the    *)
(* dispatcher and by the HTTP handlers.  Node runs each callback to its    *)
(* first await without interruption, so one action below is one such       *)
(* uninterrupted piece of code.  A dispatch is split where the code awaits *)
(* the gateway (line 725): the evaluation that queues a batch is one       *)
(* action, the arrival of the gateway's answer for a batch is another.     *)
(*                                                                         *)
(* Time is counted in minutes since local midnight of day 0; a date key is *)
(* a day number.  A date missing from the dining or Lightning Lane store   *)
(* is held as the empty list or map: every reader of these two stores      *)
(* substitutes [] or {} for a missing date (lines 663, 690, 761, 762), so  *)
(* the two differ only in the status code of an update or delete request.  *)
(* The show store keeps the difference, which autoArchivePastDates reads.  *)
(***************************************************************************)
EXTENDS Integers, Sequences, FiniteSets, TLC

\* ------------------------------------------------------------------ bounds
MaxInFlight == 1        \* dispatcher calls awaiting the gateway at one time
MaxDay == 1             \* the clock runs over days 0..MaxDay
MaxItems == 1           \* scheduled items in the live stores at one time
ChunkLimit == 1         \* messages per gateway batch (the SDK's limit, scaled down)

\* ------------------------------------------------------- program constants
MinutesPerDay == 24 * 60
FinalWarningMinutes == 5

\* ------------------------------------------------------------ input domains
Users == {"u1", "u2"}
Parks == <<"disneyland", "californiaadventure">>
ParkNames == {"disneyland", "californiaadventure"}
Rides == {"R1"}
Tokens == {"ExponentPushToken[a]", "ExponentPushToken[b]"}
\* What a user may send as pushToken: a missing one, a malformed one, and
\* well-formed ones (u2 may also register the token u1 uses).
TokenInputs(u) ==
    {"", "not-a-token"} \cup
    (IF u = "u1" THEN {"ExponentPushToken[a]"} ELSE Tokens)

NoToken == "<none>"                \* userDeviceTokens[userId] is undefined
NoEntry == [absent |-> TRUE]       \* a key that is not in the object
Undefined == [undefined |-> TRUE]  \* key present, value undefined
NoList == <<NoEntry>>              \* no list under this key
NoSet == {"<absent>"}              \* no Set under this key

VARIABLES
    parkDataCache,        \* park -> sequence of rides, in snapshot order
    userPreferences,      \* user -> NoEntry | Undefined | [ride -> NoEntry | pref]
    prefOrder,            \* keys of userPreferences in insertion order
    userDeviceTokens,     \* user -> NoToken | token
    notifiedRides,        \* user -> NoSet | set of ride ids
    userShowSchedules,    \* user -> date -> NoList | sequence of shows
    userDiningSchedules,  \* user -> date -> sequence of dining items
    userLightningLanes,   \* user -> date -> [ride -> NoEntry | lane]
    archivedSchedules,    \* user -> date -> NoEntry | archive record
    now,                  \* wall clock, minutes
    inflight,             \* dispatcher calls in progress: each the batches not yet
                          \* settled, the first of them at the gateway
    lastOp,               \* history: the operation that ran last
    queued,               \* history: messages the last evaluation handed to the dispatcher
    dropped,              \* history: messages that failed retryably, not offered again
    terminal,             \* history: messages the last gateway answer reported as
                          \* addressed to an invalid device
    runState,             \* history: user -> ride -> progress of the current ready run
    host,                 \* the host's offset from UTC, minutes (its TZ setting)
    cron,                 \* the minute tick: [pos, failed], pos = 0 when none is in
                          \* its refresh, else the index in Parks of the park being
                          \* fetched; failed = the parks whose fetch failed in the
                          \* current tick (pos > 0) or in the last one (pos = 0)
    turn                  \* the callback that is part-way through its synchronous
                          \* section and what it holds: [op, user, date, t, messages],
                          \* op = "none" between callbacks

rideVars == <<parkDataCache, userPreferences, prefOrder, notifiedRides>>
schedVars == <<userShowSchedules, userDiningSchedules, userLightningLanes>>
vars == <<parkDataCache, userPreferences, prefOrder, userDeviceTokens,
          notifiedRides, userShowSchedules, userDiningSchedules,
          userLightningLanes, archivedSchedules, now, inflight, lastOp,
          queued, dropped, terminal, runState, host, cron, turn>>
\* The process around the stores: the host's configuration and the minute
\* tick in progress.
procVars == <<host, cron, turn>>
NoTick == [pos |-> 0, failed |-> {}]
NoTurn == [op |-> "none", user |-> "", date |-> 0, t |-> 0, messages |-> <<>>]

Dates == 0..MaxDay

\* ------------------------------------------------------------ sequences
RECURSIVE SeqToSet(_)
SeqToSet(s) == IF s = <<>> THEN {} ELSE {Head(s)} \cup SeqToSet(Tail(s))

RECURSIVE Flatten(_)
Flatten(ss) == IF ss = <<>> THEN <<>> ELSE Head(ss) \o Flatten(Tail(ss))

RECURSIVE SetToSeq(_)
SetToSeq(S) ==
    IF S = {} THEN <<>>
    ELSE LET x == CHOOSE y \in S : \A z \in S : y <= z
         IN <<x>> \o SetToSeq(S \ {x})

\* ------------------------------------------------------------ schedule inputs
ShowIds == {"S1"}
LaneOrder == <<"R1">>
LaneRides == SeqToSet(LaneOrder)
NoLanes == [r \in LaneRides |-> NoEntry]
Absent == <<>>          \* a field the request body does not carry

\* ------------------------------------------------------------ ride snapshot
\* One ride of parkDataCache[park].lands[land] as organizeParkData builds it:
\* status as reported upstream, currentWait = STANDBY waitTime || 0.
RideEntries(r) ==
    { [id |-> r, status |-> "OPERATING", currentWait |-> 25],
      [id |-> r, status |-> "OPERATING", currentWait |-> 45],
      [id |-> r, status |-> "DOWN", currentWait |-> 25],
      [id |-> r, status |-> "CLOSED", currentWait |-> 25] }

\* What a successful fetch of a park can put in the cache: the monitored ride
\* of Disneyland present or absent; no ride of the other park is monitored.
ParkSnapshots(p) ==
    IF p = "disneyland" THEN {<<>>} \cup { <<e>> : e \in RideEntries("R1") }
    ELSE {<<>>}

\* Object.entries(parkDataCache) -> lands -> rides, in iteration order.
SnapshotRides(cache) == Flatten([i \in 1..Len(Parks) |-> cache[Parks[i]]])

PrefEntries == { [enabled |-> e, maxWait |-> 30] : e \in BOOLEAN }
PrefMaps == [Rides -> PrefEntries]
\* A request body without a preferences field stores undefined.
PrefInputs == PrefMaps \cup {Undefined}

isExpoPushToken(t) == t \in Tokens

\* The test of lines 548-550 for one ride and one stored preference value.
RideQualifies(pref, ride) ==
    /\ pref # NoEntry
    /\ pref.enabled
    /\ ride.currentWait <= pref.maxWait
    /\ ride.status \in {"OPERATING", "DOWN"}

\* preferences[ride.id] throws a TypeError when preferences is undefined.
PrefLookupThrows(preferences, cache) ==
    preferences = Undefined /\ SnapshotRides(cache) # <<>>

readyRidesOf(preferences, cache) ==
    LET Q(ride) == RideQualifies(preferences[ride.id], ride)
    IN SelectSeq(SnapshotRides(cache), Q)

RideIds(rides) == { rides[i].id : i \in 1..Len(rides) }

\* lines 562-564: a missing Set is created empty before it is read.
NotifiedOf(nr, u) == IF nr[u] = NoSet THEN {} ELSE nr[u]

\* Variant: every ready ride counts as newly ready.
newReadyRidesOf_AllReady(readyRides, notified) == readyRides

newReadyRidesOf(readyRides, notified) ==
    LET N(ride) == ride.id \notin notified
    IN SelectSeq(readyRides, N)

\* Variant: the plural form is chosen as soon as there is another ride.
RideBody_PluralFromTwo(newReadyRides) ==
    LET firstRide == newReadyRides[1]
        rideCount == Len(newReadyRides)
    IN IF rideCount = 1
         THEN [name |-> firstRide.id, wait |-> firstRide.currentWait,
               form |-> "NAME is now WAIT min wait!"]
         ELSE [name |-> firstRide.id, others |-> rideCount - 1,
               form |-> IF rideCount > 1 THEN "NAME and N other rides are ready!"
                        ELSE "NAME and N other ride is ready!"]

\* The body of the ride-ready message (lines 571-579): the template chosen
\* and the values put into it.
RideBody(newReadyRides) ==
    LET firstRide == newReadyRides[1]
        rideCount == Len(newReadyRides)
    IN IF rideCount = 1
         THEN [name |-> firstRide.id, wait |-> firstRide.currentWait,
               form |-> "NAME is now WAIT min wait!"]
         ELSE [name |-> firstRide.id, others |-> rideCount - 1,
               form |-> IF rideCount > 2 THEN "NAME and N other rides are ready!"
                        ELSE "NAME and N other ride is ready!"]

\* The message pushed at lines 581-593.
RideMessage(u, pushToken, newReadyRides) ==
    [to |-> pushToken, type |-> "ride", user |-> u,
     body |-> RideBody(newReadyRides),
     rides |-> [i \in 1..Len(newReadyRides) |-> newReadyRides[i].id]]

\* Variant: the set is left as it was read.
NotifiedAfterEvaluation_Unchanged(notified, readyRides) == notified

\* What the loop of checkAndNotifyUsers stores for one user once the user's
\* rides have been evaluated (line 598).
NotifiedAfterEvaluation(notified, readyRides) == RideIds(readyRides)

\* The loop of lines 534-599 over the users in `order`, from accumulated state
\* acc = [notified, messages, threw]. A throw leaves the loop at once.
RECURSIVE EvaluateUsers(_, _, _, _, _)
EvaluateUsers(order, acc, prefs, tokens, cache) ==
    IF order = <<>> \/ acc.threw THEN acc
    ELSE
      LET u == Head(order)
          pushToken == tokens[u]
          step ==
            IF pushToken = NoToken \/ ~isExpoPushToken(pushToken) THEN acc
            ELSE IF PrefLookupThrows(prefs[u], cache)
              THEN [acc EXCEPT !.threw = TRUE]
            ELSE
              LET readyRides == IF prefs[u] = Undefined THEN <<>>
                                ELSE readyRidesOf(prefs[u], cache)
                  newReadyRides ==
                      newReadyRidesOf(readyRides, NotifiedOf(acc.notified, u))
              IN [notified |->
                    [acc.notified EXCEPT
                       ![u] = NotifiedAfterEvaluation(NotifiedOf(acc.notified, u), readyRides)],
                  messages |->
                    IF Len(newReadyRides) > 0
                      THEN Append(acc.messages, RideMessage(u, pushToken, newReadyRides))
                      ELSE acc.messages,
                  threw |-> FALSE]
      IN EvaluateUsers(Tail(order), step, prefs, tokens, cache)

\* ------------------------------------------------------------ history
\* Does ride r satisfy user u's stored preference in this snapshot?
QualifiesFor(u, r, prefs, cache) ==
    /\ prefs[u] \notin {NoEntry, Undefined}
    /\ \E i \in 1..Len(SnapshotRides(cache)) :
          /\ SnapshotRides(cache)[i].id = r
          /\ RideQualifies(prefs[u][r], SnapshotRides(cache)[i])

\* Rides named in the ride-ready messages of `msgs` that belong to user u.
RidesQueuedFor(u, msgs) ==
    UNION { SeqToSet(msgs[i].rides) :
              i \in { j \in 1..Len(msgs) : msgs[j].type = "ride" /\ msgs[j].user = u } }

\* runState[u][r]: "never" no qualifying evaluation yet; "run" the ride
\* qualifies since some evaluation and no message of this run named it;
\* "sent" a message of this run named it; "left" it qualified earlier and the
\* last evaluation found it not qualifying.
RunStateAfterEvaluation(old, qualifies, sent) ==
    IF ~qualifies THEN (IF old = "never" THEN "never" ELSE "left")
    ELSE IF sent THEN "sent"
    ELSE IF old = "sent" THEN old
    ELSE "run"

\* ------------------------------------------------------------ initial state
EmptySchedule == [u \in Users |-> [d \in Dates |-> NoList]]

StoresAtStart ==
    /\ parkDataCache = [p \in ParkNames |-> <<>>]
    /\ userPreferences = [u \in Users |-> NoEntry]
    /\ prefOrder = <<>>
    /\ userDeviceTokens = [u \in Users |-> NoToken]
    /\ notifiedRides = [u \in Users |-> NoSet]
    /\ userShowSchedules = EmptySchedule
    /\ userDiningSchedules = [u \in Users |-> [d \in Dates |-> <<>>]]
    /\ userLightningLanes = [u \in Users |-> [d \in Dates |-> NoLanes]]
    /\ archivedSchedules = [u \in Users |-> [d \in Dates |-> NoEntry]]
    /\ now = 0
    /\ inflight = <<>>
    /\ lastOp = "start"
    /\ queued = <<>>
    /\ dropped = <<>>
    /\ terminal = <<>>
    /\ runState = [u \in Users |-> [r \in Rides |-> "never"]]

Init ==
    /\ StoresAtStart
    /\ host = 0
    /\ cron = NoTick
    /\ turn = NoTurn

\* History kept by every action: its kind ("request" for an HTTP handler,
\* "refresh" for a cache update, else the function's name), the messages it
\* handed to the dispatcher, and the messages that failed retryably and have
\* not been offered again: a gateway step adds its failures, a cache
\* update or the passing of time keeps the record, an evaluation keeps the
\* messages of its own engine whose condition still holds and which it did
\* not queue again, a request clears the record.
DidAnswer(op, handed, failed, invalid) ==
    /\ lastOp' = op
    /\ queued' = handed
    /\ dropped' = failed
    /\ terminal' = invalid

Did(op, handed, failed) == DidAnswer(op, handed, failed, <<>>)

\* The failed messages a ride evaluation leaves on record, given what it
\* handed to the dispatcher: the reminders, and the ride messages naming a
\* ride that still qualifies and was not named again.
DroppedAfterRideTick(failed, prefs, cache, handed) ==
    LET K(m) == \/ m.type # "ride"
                \/ \E r \in SeqToSet(m.rides) :
                      /\ QualifiesFor(m.user, r, prefs, cache)
                      /\ r \notin RidesQueuedFor(m.user, handed)
    IN SelectSeq(failed, K)

\* ------------------------------------------------------------ dispatcher
\* expo.chunkPushNotifications (line 721): the messages cut, in order, into
\* batches of at most ChunkLimit.
RECURSIVE chunkPushNotifications(_)
chunkPushNotifications(messages) ==
    IF Len(messages) <= ChunkLimit THEN <<messages>>
    ELSE <<SubSeq(messages, 1, ChunkLimit)>>
           \o chunkPushNotifications(SubSeq(messages, ChunkLimit + 1, Len(messages)))

\* sendPushNotifications up to its first await: nothing for an empty list
\* (line 719), otherwise the first batch goes to the gateway and the others
\* wait for their turn in the loop.
sendPushNotifications(pending, messages) ==
    IF Len(messages) = 0 THEN pending
    ELSE Append(pending, chunkPushNotifications(messages))

CanDispatch == Len(inflight) < MaxInFlight

TicketKinds == {"ok", "DeviceNotRegistered", "MessageRateExceeded"}

\* Variant: a DeviceNotRegistered ticket is only logged.
RemoveInvalidToken_Keep(tokens, message, ticket) == tokens

\* Variant: any error ticket removes the registrations with the address.
RemoveInvalidToken_AnyError(tokens, message, ticket) ==
    IF ticket # "ok"
      THEN [u \in Users |-> IF tokens[u] = message.to THEN NoToken ELSE tokens[u]]
      ELSE tokens

\* Variant: the registration of the user the message was built for is
\* removed, whatever token the user holds by now.
RemoveInvalidToken_ByUser(tokens, message, ticket) ==
    IF ticket = "DeviceNotRegistered"
      THEN [tokens EXCEPT ![message.user] = NoToken]
      ELSE tokens

\* lines 731-739: a DeviceNotRegistered ticket removes the token of every
\* user whose stored token is the message's address.
RemoveInvalidToken(tokens, message, ticket) ==
    IF ticket = "DeviceNotRegistered"
      THEN [u \in Users |-> IF tokens[u] = message.to THEN NoToken ELSE tokens[u]]
      ELSE tokens

RECURSIVE ProcessTickets(_, _, _)
ProcessTickets(tokens, chunk, tickets) ==
    IF chunk = <<>> THEN tokens
    ELSE ProcessTickets(RemoveInvalidToken(tokens, Head(chunk), Head(tickets)),
                        Tail(chunk), Tail(tickets))

RemoveAt(seq, i) == SubSeq(seq, 1, i - 1) \o SubSeq(seq, i + 1, Len(seq))

\* The elements of seq at the positions in `at`, in order.
SelectAt(seq, at) ==
    LET idx == SetToSeq(at) IN [k \in 1..Len(idx) |-> seq[idx[k]]]

\* Variant: the catch rethrows the gateway's error.
EscapesTry_Throw(outcome) == outcome = "throw"

\* Does an outcome of the gateway call ("throw", "tickets") leave the try
\* block of lines 724-744? The block encloses the call and the handling of
\* its tickets, and the catch only logs.
EscapesTry(outcome) == FALSE

\* Variant: a thrown gateway call ends the loop over the batches.
RestAfterThrow_Abandon(chunks) == <<>>

\* The batches of a call still to submit once the gateway call for its first
\* batch has thrown: the catch is inside the loop (lines 723, 742-744), so the
\* loop goes on with the next batch.
RestAfterThrow(chunks) == Tail(chunks)

\* The dispatcher calls in progress once call i is left with the batches
\* `rest`: the call returns when none is left.
Settled(calls, i, rest) ==
    IF rest = <<>> THEN RemoveAt(calls, i) ELSE [calls EXCEPT ![i] = rest]

\* The gateway call for the batch at the gateway throws (line 742): logged,
\* and the next batch of the call, if any, is submitted.
GatewayThrows(i) ==
    /\ i \in 1..Len(inflight)
    /\ inflight' = Settled(inflight, i,
                      IF EscapesTry("throw") THEN <<>> ELSE RestAfterThrow(inflight[i]))
    /\ Did(IF EscapesTry("throw") THEN "dispatchRejected" ELSE "gatewayThrows",
           <<>>, dropped \o Head(inflight[i]))
    /\ UNCHANGED <<rideVars, userDeviceTokens, schedVars, archivedSchedules, now, runState,
                   procVars>>

\* The gateway answers the batch at the gateway with one ticket per message
\* (lines 725-741), and the next batch of the call, if any, is submitted.
GatewayAnswers(i) ==
    /\ i \in 1..Len(inflight)
    /\ LET chunk == Head(inflight[i])
       IN \E tickets \in [1..Len(chunk) -> TicketKinds] :
            /\ userDeviceTokens' = ProcessTickets(userDeviceTokens, chunk, tickets)
            /\ DidAnswer(IF EscapesTry("tickets") THEN "dispatchRejected"
                         ELSE "gatewayAnswers", <<>>,
                   dropped \o SelectAt(chunk,
                       { k \in 1..Len(chunk) : tickets[k] = "MessageRateExceeded" }),
                   SelectAt(chunk,
                       { k \in 1..Len(chunk) : tickets[k] = "DeviceNotRegistered" }))
    /\ inflight' = Settled(inflight, i,
                      IF EscapesTry("tickets") THEN <<>> ELSE Tail(inflight[i]))
    /\ UNCHANGED <<rideVars, schedVars, archivedSchedules, now, runState,
                   procVars>>

\* ------------------------------------------------------------ ride engine
\* updateParkDataCache for one park, fetch succeeded (lines 507-517).
UpdateParkDataCache(p) ==
    /\ \E snap \in ParkSnapshots(p) : parkDataCache' = [parkDataCache EXCEPT ![p] = snap]
    /\ Did("refresh", <<>>, dropped)
    /\ UNCHANGED <<userPreferences, prefOrder, notifiedRides, userDeviceTokens,
                   schedVars, archivedSchedules, now, inflight, runState,
                   procVars>>

\* updateParkDataCache for one park, fetch failed (lines 520-522).
UpdateParkDataCacheFails(p) ==
    /\ p \in ParkNames
    /\ Did("refresh", <<>>, dropped)
    /\ UNCHANGED <<rideVars, userDeviceTokens, schedVars, archivedSchedules,
                   now, inflight, runState,
                   procVars>>

\* checkAndNotifyUsers (lines 529-603) up to the await inside the dispatcher.
\* A TypeError in the loop rejects the call: what the loop stored so far
\* stays, the queued messages are never handed to the dispatcher.
CheckAndNotifyUsers ==
    LET res == EvaluateUsers(prefOrder,
                   [notified |-> notifiedRides, messages |-> <<>>, threw |-> FALSE],
                   userPreferences, userDeviceTokens, parkDataCache)
        handed == IF res.threw THEN <<>> ELSE res.messages
    IN /\ CanDispatch
       /\ notifiedRides' = res.notified
       /\ inflight' = sendPushNotifications(inflight, handed)
       /\ Did(IF res.threw THEN "checkAndNotifyUsersThrew" ELSE "checkAndNotifyUsers",
              handed, DroppedAfterRideTick(dropped, userPreferences, parkDataCache, handed))
       /\ runState' = [u \in Users |-> [r \in Rides |->
              RunStateAfterEvaluation(runState[u][r],
                  QualifiesFor(u, r, userPreferences, parkDataCache),
                  r \in RidesQueuedFor(u, handed))]]
       /\ UNCHANGED <<parkDataCache, userPreferences, prefOrder, userDeviceTokens,
                      schedVars, archivedSchedules, now,
                   procVars>>

\* A request body or a response carrying a preferences value, kept in the
\* history.
PreferencesRecord(kind, u, value) ==
    [to |-> "", type |-> kind, user |-> u, body |-> value]

\* POST /api/users/:userId/preferences (lines 940-951).
\* Variant: a save stores the value for every user.
PreferencesAfterSave_EveryUser(prefs, u, preferences) == [v \in Users |-> preferences]

\* Line 944: userPreferences[userId] = preferences.
PreferencesAfterSave(prefs, u, preferences) == [prefs EXCEPT ![u] = preferences]

SavePreferences(u, preferences) ==
    /\ userPreferences' = PreferencesAfterSave(userPreferences, u, preferences)
    /\ prefOrder' = IF u \in SeqToSet(prefOrder) THEN prefOrder ELSE Append(prefOrder, u)
    /\ Did("savePreferences", <<PreferencesRecord("savePreferences", u, preferences)>>, <<>>)
    /\ UNCHANGED <<parkDataCache, notifiedRides, userDeviceTokens, schedVars,
                   archivedSchedules, now, inflight, runState,
                   procVars>>

\* What unregister-device leaves under notifiedRides[userId] (line 1026).
NotifiedAfterUnregister(set) == NoSet

\* POST /api/users/:userId/register-device (lines 996-1019).
RegisterDevice(u, pushToken) ==
    /\ IF pushToken = "" \/ ~isExpoPushToken(pushToken)
         THEN /\ Did("request", <<>>, <<>>)
              /\ UNCHANGED <<userDeviceTokens, notifiedRides>>
         ELSE /\ userDeviceTokens' = [userDeviceTokens EXCEPT ![u] = pushToken]
              /\ notifiedRides' = [notifiedRides EXCEPT ![u] = NotifiedOf(notifiedRides, u)]
              /\ Did("request", <<>>, <<>>)
    /\ UNCHANGED <<parkDataCache, userPreferences, prefOrder, schedVars,
                   archivedSchedules, now, inflight, runState,
                   procVars>>

\* POST /api/users/:userId/unregister-device (lines 1022-1032).
UnregisterDevice(u) ==
    /\ userDeviceTokens' = [userDeviceTokens EXCEPT ![u] = NoToken]
    /\ notifiedRides' = [notifiedRides EXCEPT ![u] = NotifiedAfterUnregister(notifiedRides[u])]
    /\ Did("request", <<>>, <<>>)
    /\ UNCHANGED <<parkDataCache, userPreferences, prefOrder, schedVars,
                   archivedSchedules, now, inflight, runState,
                   procVars>>

NextRide ==
    \/ \E p \in ParkNames : UpdateParkDataCache(p)
    \/ \E p \in ParkNames : UpdateParkDataCacheFails(p)
    \/ CheckAndNotifyUsers
    \/ \E u \in Users, preferences \in PrefInputs : SavePreferences(u, preferences)
    \/ \E u \in Users : \E t \in TokenInputs(u) : RegisterDevice(u, t)
    \/ \E u \in Users : UnregisterDevice(u)
    \/ \E i \in 1..MaxInFlight : GatewayThrows(i)
    \/ \E i \in 1..MaxInFlight : GatewayAnswers(i)

SpecRide == Init /\ [][NextRide]_vars

\* ------------------------------------------------------------ clock
\* The instants at which the model looks at the clock: on day 0 the minutes
\* at which the thresholds of a 14:00 event are reached (13:40 for a travel
\* time of 20, 13:55 for the final warning, 13:57 for a travel time of 3),
\* and local midnight of every later day.
MinutesOfInterest == {13 * 60 + 40, 13 * 60 + 55, 13 * 60 + 57}
Instants == MinutesOfInterest \cup { d * MinutesPerDay : d \in 1..MaxDay }

\* new Date(string) for a wall-clock string without a zone (line 780): the
\* string is read as the host's local time; the result in UTC minutes.
ParsedAsHostLocal(wall) == wall - host

\* toISOString().split('T')[0] (line 781): the UTC calendar day of a Date.
toISODate(utc) == utc \div MinutesPerDay

\* getTodayDateString (lines 778-782) at park wall-clock time t, which is
\* what toLocaleString with timeZone America/Los_Angeles prints: the string
\* is parsed back as host-local time and the UTC day of the result is taken.
getTodayDateString(t) == toISODate(ParsedAsHostLocal(t))

\* 14:00 on day d, the target time the model's users pick.
TargetTime(d) == d * MinutesPerDay + 14 * 60

AdvanceClock ==
    /\ \E t \in Instants : t > now /\ now' = t
    /\ Did("clock", <<>>, dropped)
    /\ UNCHANGED <<rideVars, userDeviceTokens, schedVars, archivedSchedules,
                   inflight, runState,
                   procVars>>

\* ------------------------------------------------------------ schedules

ListOf(store, u, d) == IF store[u][d] = NoList THEN <<>> ELSE store[u][d]

LaneCount(lanes) == Cardinality({ r \in LaneRides : lanes[r] # NoEntry })

LiveItems ==
    LET count(u, d) ==
          Len(ListOf(userShowSchedules, u, d)) + Len(userDiningSchedules[u][d])
          + LaneCount(userLightningLanes[u][d])
        RECURSIVE Sum(_)
        Sum(S) == IF S = {} THEN 0
                  ELSE LET x == CHOOSE y \in S : TRUE
                       IN count(x[1], x[2]) + Sum(S \ {x})
    IN Sum(Users \X Dates)

DiningIdsIn(list) == { list[i].id : i \in 1..Len(list) }
UsedDiningIds ==
    UNION { DiningIdsIn(userDiningSchedules[u][d]) : u \in Users, d \in Dates }
    \cup UNION { IF archivedSchedules[u][d] = NoEntry THEN {}
                 ELSE DiningIdsIn(archivedSchedules[u][d].dining) : u \in Users, d \in Dates }
\* generateId (lines 787-789): an id no stored item carries.
generateId == CHOOSE n \in 1..(Cardinality(UsedDiningIds) + 1) : n \notin UsedDiningIds

NewShow(showId, selectedTime, travelTime) ==
    [showId |-> showId, selectedTime |-> selectedTime, travelTime |-> travelTime,
     notified |-> FALSE, finalWarningNotified |-> FALSE]

\* POST /api/users/:userId/shows (lines 1035-1064); showId "" is a body
\* without the field.
AddShow(u, date, showId, selectedTime, travelTime) ==
    /\ LiveItems < MaxItems
    /\ IF showId = ""
         THEN UNCHANGED userShowSchedules
         ELSE userShowSchedules' = [userShowSchedules EXCEPT ![u][date] =
                 Append(ListOf(userShowSchedules, u, date),
                        NewShow(showId, selectedTime, travelTime))]
    /\ Did("request", <<>>, <<>>)
    /\ UNCHANGED <<rideVars, userDeviceTokens, userDiningSchedules, userLightningLanes,
                   archivedSchedules, now, inflight, runState,
                   procVars>>

\* DELETE /api/users/:userId/shows/:showId (lines 1080-1093).
DeleteShow(u, date, showId) ==
    /\ IF userShowSchedules[u][date] = NoList
         THEN UNCHANGED userShowSchedules
         ELSE LET keep(show) == show.showId # showId
              IN userShowSchedules' = [userShowSchedules EXCEPT ![u][date] =
                     SelectSeq(userShowSchedules[u][date], keep)]
    /\ Did("request", <<>>, <<>>)
    /\ UNCHANGED <<rideVars, userDeviceTokens, userDiningSchedules, userLightningLanes,
                   archivedSchedules, now, inflight, runState,
                   procVars>>

\* POST /api/users/:userId/dining (lines 1096-1128); type "" is a body
\* without the field.
AddDining(u, date, time, type, travelTime) ==
    /\ LiveItems < MaxItems
    /\ IF type = ""
         THEN UNCHANGED userDiningSchedules
         ELSE userDiningSchedules' = [userDiningSchedules EXCEPT ![u][date] =
                 Append(userDiningSchedules[u][date],
                        [id |-> generateId, time |-> time, type |-> type,
                         travelTime |-> travelTime, notified |-> FALSE])]
    /\ Did("request", <<>>, <<>>)
    /\ UNCHANGED <<rideVars, userDeviceTokens, userShowSchedules, userLightningLanes,
                   archivedSchedules, now, inflight, runState,
                   procVars>>

\* Variant: an update that keeps the flag the item had.
NotifiedAfterUpdate_Kept(dining, body) == dining.notified

\* The flag a dining update stores (line 1161).
NotifiedAfterUpdate(dining, body) == FALSE

\* Lines 1158-1161 on the item found; a field is a sequence holding the value,
\* or Absent.
UpdatedDining(dining, body) ==
    [id |-> dining.id,
     time |-> IF body.time # Absent THEN body.time[1] ELSE dining.time,
     type |-> IF body.type # Absent THEN body.type[1] ELSE dining.type,
     travelTime |-> IF body.travelTime # Absent THEN body.travelTime[1]
                    ELSE dining.travelTime,
     notified |-> NotifiedAfterUpdate(dining, body)]

\* PUT /api/users/:userId/dining/:diningId (lines 1144-1164).
UpdateDining(u, date, diningId, body) ==
    /\ IF diningId \notin DiningIdsIn(userDiningSchedules[u][date])
         THEN /\ UNCHANGED userDiningSchedules
              /\ Did("request", <<>>, <<>>)
         ELSE /\ userDiningSchedules' = [userDiningSchedules EXCEPT ![u][date] =
                    [i \in 1..Len(@) |->
                       IF @[i].id = diningId /\ \A j \in 1..(i - 1) : @[j].id # diningId
                         THEN UpdatedDining(@[i], body) ELSE @[i]]]
              /\ Did(IF \E i \in 1..Len(userDiningSchedules[u][date]) :
                         /\ userDiningSchedules[u][date][i].id = diningId
                         /\ userDiningSchedules[u][date][i].notified
                       THEN "updateNotifiedDining" ELSE "updateDining", <<>>, <<>>)
    /\ UNCHANGED <<rideVars, userDeviceTokens, userShowSchedules, userLightningLanes,
                   archivedSchedules, now, inflight, runState,
                   procVars>>

\* DELETE /api/users/:userId/dining/:diningId (lines 1167-1180).
DeleteDining(u, date, diningId) ==
    /\ LET keep(dining) == dining.id # diningId
       IN userDiningSchedules' = [userDiningSchedules EXCEPT ![u][date] =
              SelectSeq(userDiningSchedules[u][date], keep)]
    /\ Did("request", <<>>, <<>>)
    /\ UNCHANGED <<rideVars, userDeviceTokens, userShowSchedules, userLightningLanes,
                   archivedSchedules, now, inflight, runState,
                   procVars>>

NewLane(returnTime, travelTime) ==
    [returnTime |-> returnTime, travelTime |-> travelTime, notified |-> FALSE]

\* POST /api/users/:userId/lightning-lane (lines 1183-1210); rideId "" is a
\* body without the field. An entry already stored for the ride is replaced.
AddLane(u, date, rideId, returnTime, travelTime) ==
    /\ \/ LiveItems < MaxItems
       \/ rideId # "" /\ userLightningLanes[u][date][rideId] # NoEntry
    /\ IF rideId = ""
         THEN /\ UNCHANGED userLightningLanes
              /\ Did("request", <<>>, <<>>)
         ELSE /\ userLightningLanes' = [userLightningLanes EXCEPT ![u][date] =
                    [userLightningLanes[u][date] EXCEPT
                       ![rideId] = NewLane(returnTime, travelTime)]]
              /\ Did("addLane", <<>>, <<>>)
    /\ UNCHANGED <<rideVars, userDeviceTokens, userShowSchedules, userDiningSchedules,
                   archivedSchedules, now, inflight, runState,
                   procVars>>

\* DELETE /api/users/:userId/lightning-lane/:rideId (lines 1226-1237).
DeleteLane(u, date, rideId) ==
    /\ userLightningLanes' = [userLightningLanes EXCEPT ![u][date][rideId] = NoEntry]
    /\ Did("request", <<>>, <<>>)
    /\ UNCHANGED <<rideVars, userDeviceTokens, userShowSchedules, userDiningSchedules,
                   archivedSchedules, now, inflight, runState,
                   procVars>>

\* DELETE /api/users/:userId/archives/:date (lines 1247-1257).
\* Variant: the date is deleted from every user's archives.
ArchivesAfterDelete_EveryUser(archives, u, date) ==
    [v \in Users |-> [archives[v] EXCEPT ![date] = NoEntry]]

\* delete archivedSchedules[userId][date] (line 1254).
ArchivesAfterDelete(archives, u, date) == [archives EXCEPT ![u][date] = NoEntry]

DeleteArchive(u, date) ==
    /\ IF archivedSchedules[u][date] = NoEntry
         THEN /\ UNCHANGED archivedSchedules
              /\ Did("request", <<>>, <<>>)
         ELSE /\ archivedSchedules' = ArchivesAfterDelete(archivedSchedules, u, date)
              /\ Did("deleteArchive", <<>>, <<>>)
    /\ UNCHANGED <<rideVars, userDeviceTokens, schedVars, now, inflight, runState,
                   procVars>>

\* ------------------------------------------------------------ reminders
ReminderMessage(u, pushToken, type, item, index) ==
    [to |-> pushToken, type |-> type, user |-> u, item |-> item, index |-> index]

\* Variant: the threshold itself does not fire yet.
ShowReminderFires_Strict(show, t) ==
    t > show.selectedTime - show.travelTime /\ ~show.notified

\* Variant: the main reminder waits for the show time itself.
ShowReminderFires_NoTravel(show, t) == t >= show.selectedTime /\ ~show.notified

\* Line 627: the main reminder of a show is due and not yet flagged.
ShowReminderFires(show, t) ==
    t >= show.selectedTime - show.travelTime /\ ~show.notified

\* Variant: the final warning as an else-branch of the main reminder, so that
\* it can fire only at an evaluation where the main reminder does not.
FinalWarningFires_ElseBranch(show, t) ==
    /\ ~ShowReminderFires(show, t)
    /\ t >= show.selectedTime - FinalWarningMinutes /\ ~show.finalWarningNotified

\* Line 642: the final warning of a show is due and not yet flagged.
FinalWarningFires(show, t) ==
    t >= show.selectedTime - FinalWarningMinutes /\ ~show.finalWarningNotified

\* Variant: the reminder of a dining item fires whenever it is due.
DiningReminderFires_WheneverDue(dining, t) == t >= dining.time - dining.travelTime

\* Lines 669 and 696: the single reminder of a dining item or a lane.
DiningReminderFires(dining, t) == t >= dining.time - dining.travelTime /\ ~dining.notified
LaneReminderFires(lane, t) == t >= lane.returnTime - lane.travelTime /\ ~lane.notified

\* Variant: the flags follow what fired at this evaluation alone.
ShowAfterEvaluation_Recomputed(show, t) ==
    [show EXCEPT !.notified = ShowReminderFires(show, t),
                 !.finalWarningNotified = FinalWarningFires(show, t)]

\* The flags of a show after one pass of the loop body (lines 627-654).
ShowAfterEvaluation(show, t) ==
    [show EXCEPT !.notified = show.notified \/ ShowReminderFires(show, t),
                 !.finalWarningNotified =
                     show.finalWarningNotified \/ FinalWarningFires(show, t)]

DiningAfterEvaluation(dining, t) ==
    [dining EXCEPT !.notified = dining.notified \/ DiningReminderFires(dining, t)]

LaneAfterEvaluation(lane, t) ==
    [lane EXCEPT !.notified = lane.notified \/ LaneReminderFires(lane, t)]

\* The users the three loops of checkEventReminders visit. (The loops run in
\* the insertion order of each store; the order only decides the order of
\* the messages in the batch, so the model visits the users in a fixed order.)
UserOrder == <<"u1", "u2">>

\* Variant: the loops visit every user, registered or not.
Evaluated_Everyone(tokens, u) == TRUE

\* Lines 616-617, 660-661, 687-688: a user without a valid token is skipped.
Evaluated(tokens, u) == tokens[u] # NoToken /\ isExpoPushToken(tokens[u])

ShowMessages(u, pushToken, list, t) ==
    Flatten([i \in 1..Len(list) |->
        (IF ShowReminderFires(list[i], t)
           THEN <<ReminderMessage(u, pushToken, "show", list[i].showId, i)>> ELSE <<>>)
        \o
        (IF FinalWarningFires(list[i], t)
           THEN <<ReminderMessage(u, pushToken, "show-warning", list[i].showId, i)>>
           ELSE <<>>)])

DiningMessages(u, pushToken, list, t) ==
    Flatten([i \in 1..Len(list) |->
        IF DiningReminderFires(list[i], t)
          THEN <<ReminderMessage(u, pushToken, "dining", list[i].id, i)>> ELSE <<>>])

\* The day's lanes are visited in a fixed order of their ride ids.
LaneMessages(u, pushToken, lanes, t) ==
    Flatten([k \in 1..Len(LaneOrder) |->
        IF lanes[LaneOrder[k]] # NoEntry /\ LaneReminderFires(lanes[LaneOrder[k]], t)
          THEN <<ReminderMessage(u, pushToken, "lightning-lane", LaneOrder[k], 0)>>
          ELSE <<>>])

Today == getTodayDateString(now)

\* Messages of `msgs` of the given type for item `item` at position `index`
\* of user u's list.
MessagesFor(msgs, u, type, item, index) ==
    { k \in 1..Len(msgs) : /\ msgs[k].type = type
                           /\ msgs[k].user = u
                           /\ msgs[k].item = item
                           /\ msgs[k].index = index }

\* The item reminder message m was about is still in today's list of its
\* user, at the same place, with the threshold of m's stage passed.
ReminderDue(m) ==
    CASE m.type \in {"show", "show-warning"} ->
           LET list == ListOf(userShowSchedules, m.user, Today)
           IN /\ m.index <= Len(list)
              /\ list[m.index].showId = m.item
              /\ now >= list[m.index].selectedTime
                          - (IF m.type = "show" THEN list[m.index].travelTime
                             ELSE FinalWarningMinutes)
      [] m.type = "dining" ->
           LET list == userDiningSchedules[m.user][Today]
           IN /\ m.index <= Len(list)
              /\ list[m.index].id = m.item
              /\ now >= list[m.index].time - list[m.index].travelTime
      [] m.type = "lightning-lane" ->
           LET lane == userLightningLanes[m.user][Today][m.item]
           IN /\ lane # NoEntry
              /\ now >= lane.returnTime - lane.travelTime
      [] OTHER -> FALSE

\* The flag of the stage reminder message m was about, on the item as stored.
ReminderFlagged(m) ==
    CASE m.type = "show" -> userShowSchedules[m.user][Today][m.index].notified
      [] m.type = "show-warning" ->
           userShowSchedules[m.user][Today][m.index].finalWarningNotified
      [] m.type = "dining" -> userDiningSchedules[m.user][Today][m.index].notified
      [] m.type = "lightning-lane" ->
           userLightningLanes[m.user][Today][m.item].notified
      [] OTHER -> FALSE

\* The failed messages a reminder evaluation leaves on record, given what it
\* handed to the dispatcher: the ride messages, and the reminders still due
\* that were not queued again.
DroppedAfterReminderTick(failed, handed) ==
    LET K(m) == \/ m.type = "ride"
                \/ /\ ReminderDue(m)
                   /\ MessagesFor(handed, m.user, m.type, m.item, m.index) = {}
    IN SelectSeq(failed, K)

\* Variant: the items of every date are evaluated.
EvaluatedDate_Any(d, today) == TRUE

\* The dates whose items an evaluation visits: today's only (lines 619, 663,
\* 690).
EvaluatedDate(d, today) == d = today

\* checkEventReminders (lines 608-713) up to the await inside the dispatcher.
RemindedUsers(tokens) == { u \in Users : Evaluated(tokens, u) }

\* The messages of one run of checkEventReminders, in the order of its three
\* loops (shows, dining, lanes) and of the users within each.
ReminderMessages(tokens, shows, dinings, lanes, today, t) ==
    LET perUser(F(_)) == Flatten([k \in 1..Len(UserOrder) |->
                            IF UserOrder[k] \in RemindedUsers(tokens)
                              THEN F(UserOrder[k]) ELSE <<>>])
        showMsgs(u) == ShowMessages(u, tokens[u], ListOf(shows, u, today), t)
        diningMsgs(u) == DiningMessages(u, tokens[u], dinings[u][today], t)
        laneMsgs(u) == LaneMessages(u, tokens[u], lanes[u][today], t)
    IN perUser(showMsgs) \o perUser(diningMsgs) \o perUser(laneMsgs)

\* The three stores as one run of checkEventReminders leaves them.
ShowsAfterReminders(tokens, shows, today, t) ==
    [u \in Users |-> [d \in Dates |->
        IF u \in RemindedUsers(tokens) /\ EvaluatedDate(d, today) /\ shows[u][d] # NoList
          THEN [i \in 1..Len(shows[u][d]) |-> ShowAfterEvaluation(shows[u][d][i], t)]
          ELSE shows[u][d]]]

DiningAfterReminders(tokens, dinings, today, t) ==
    [u \in Users |-> [d \in Dates |->
        IF u \in RemindedUsers(tokens) /\ EvaluatedDate(d, today)
          THEN [i \in 1..Len(dinings[u][d]) |-> DiningAfterEvaluation(dinings[u][d][i], t)]
          ELSE dinings[u][d]]]

LanesAfterReminders(tokens, lanes, today, t) ==
    [u \in Users |-> [d \in Dates |->
        IF u \in RemindedUsers(tokens) /\ EvaluatedDate(d, today)
          THEN [r \in LaneRides |->
                   IF lanes[u][d][r] = NoEntry THEN NoEntry
                   ELSE LaneAfterEvaluation(lanes[u][d][r], t)]
          ELSE lanes[u][d]]]

CheckEventReminders ==
    LET today == getTodayDateString(now)
        messages == ReminderMessages(userDeviceTokens, userShowSchedules,
                        userDiningSchedules, userLightningLanes, today, now)
    IN /\ CanDispatch
       /\ today \in Dates
       /\ userShowSchedules' =
            ShowsAfterReminders(userDeviceTokens, userShowSchedules, today, now)
       /\ userDiningSchedules' =
            DiningAfterReminders(userDeviceTokens, userDiningSchedules, today, now)
       /\ userLightningLanes' =
            LanesAfterReminders(userDeviceTokens, userLightningLanes, today, now)
       /\ inflight' = sendPushNotifications(inflight, messages)
       /\ Did("checkEventReminders", messages, DroppedAfterReminderTick(dropped, messages))
       /\ UNCHANGED <<rideVars, userDeviceTokens, archivedSchedules, now, runState,
                      procVars>>

\* ------------------------------------------------------------ archival
\* The dates autoArchivePastDates visits for a user (lines 755-757): the keys
\* of the user's show store that lie before today.
\* Variant: today's date is archived with the past ones.
DatesToArchive_UpToToday(u, today) ==
    { d \in Dates : userShowSchedules[u][d] # NoList /\ d <= today }

\* Variant: every past date is archived, with or without a show schedule.
DatesToArchive_Every(u, today) == { d \in Dates : d < today }

DatesToArchive(u, today) ==
    { d \in Dates : userShowSchedules[u][d] # NoList /\ d < today }

\* The entry written for a date (lines 759-763).
ArchiveEntry(u, d) ==
    [shows |-> userShowSchedules[u][d],
     dining |-> userDiningSchedules[u][d],
     lightningLanes |-> userLightningLanes[u][d]]

\* The four stores as one run of autoArchivePastDates leaves them: every
\* past date under a user's show schedules is copied to the archive (lines
\* 760-764) and deleted from the live stores (lines 766-768).
ArchivesAfterSweep ==
    [u \in Users |-> [d \in Dates |->
        IF d \in DatesToArchive(u, Today) THEN ArchiveEntry(u, d)
        ELSE archivedSchedules[u][d]]]

ShowsAfterSweep ==
    [u \in Users |-> [d \in Dates |->
        IF d \in DatesToArchive(u, Today) THEN NoList ELSE userShowSchedules[u][d]]]

DiningAfterSweep ==
    [u \in Users |-> [d \in Dates |->
        IF d \in DatesToArchive(u, Today) THEN <<>> ELSE userDiningSchedules[u][d]]]

LanesAfterSweep ==
    [u \in Users |-> [d \in Dates |->
        IF d \in DatesToArchive(u, Today) THEN NoLanes ELSE userLightningLanes[u][d]]]

\* autoArchivePastDates (lines 751-773).
AutoArchivePastDates ==
    /\ archivedSchedules' = ArchivesAfterSweep
    /\ userShowSchedules' = ShowsAfterSweep
    /\ userDiningSchedules' = DiningAfterSweep
    /\ userLightningLanes' = LanesAfterSweep
    /\ Did("autoArchivePastDates", <<>>, <<>>)
    /\ UNCHANGED <<rideVars, userDeviceTokens, now, inflight, runState,
                   procVars>>

\* ------------------------------------------------------------ schedule engine
TravelTimes == {3, 20}
\* Bodies of a dining update: no field, a new type only, a new travel time
\* only, a new time only (15:00 on day 0).
DiningBodies ==
    { [time |-> Absent, type |-> Absent, travelTime |-> Absent],
      [time |-> Absent, type |-> <<"dinner">>, travelTime |-> Absent],
      [time |-> Absent, type |-> Absent, travelTime |-> <<30>>],
      [time |-> <<15 * 60>>, type |-> Absent, travelTime |-> Absent] }

\* The user whose schedule the schedule engine is exercised with. (Every
\* handler and every loop reaches a store through the user's own key.)
SchedUsers == {"u1"}

NextSched ==
    \/ AdvanceClock
    \/ \E u \in SchedUsers, d \in Dates, id \in ShowIds \cup {""}, tr \in TravelTimes :
          AddShow(u, d, id, TargetTime(d), tr)
    \/ \E u \in SchedUsers, d \in Dates, id \in ShowIds : DeleteShow(u, d, id)
    \/ \E u \in SchedUsers, d \in Dates, ty \in {"lunch", ""} :
          AddDining(u, d, TargetTime(d), ty, 20)
    \/ \E u \in SchedUsers, d \in Dates, id \in 1..MaxItems, body \in DiningBodies :
          UpdateDining(u, d, id, body)
    \/ \E u \in SchedUsers, d \in Dates, id \in 1..MaxItems : DeleteDining(u, d, id)
    \/ \E u \in SchedUsers, d \in Dates, r \in LaneRides \cup {""}, tr \in {20, 30} :
          AddLane(u, d, r, TargetTime(d), tr)
    \/ \E u \in SchedUsers, d \in Dates, r \in LaneRides : DeleteLane(u, d, r)
    \/ \E u \in SchedUsers, d \in Dates : DeleteArchive(u, d)
    \/ CheckEventReminders
    \/ CheckAndNotifyUsers
    \/ AutoArchivePastDates
    \/ \E u \in SchedUsers : \E t \in TokenInputs(u) : RegisterDevice(u, t)
    \/ \E u \in SchedUsers : UnregisterDevice(u)
    \/ \E i \in 1..MaxInFlight : GatewayThrows(i)
    \/ \E i \in 1..MaxInFlight : GatewayAnswers(i)

SpecSched == Init /\ [][NextSched]_vars

Next == NextRide \/ NextSched
Spec == Init /\ [][Next]_vars

\* ====================================================================
\* Claims about the ride-readiness engine (SpecRide)
\* ====================================================================
ValidToken(u) == userDeviceTokens[u] # NoToken /\ isExpoPushToken(userDeviceTokens[u])

RideTick == lastOp' \in {"checkAndNotifyUsers", "checkAndNotifyUsersThrew"}

\* C1: over any sequence of ticks, refreshes, delivery outcomes and device
\* register/unregister calls, a ride-ready message names a ride for a user at
\* most once per maximal run of consecutive evaluations in which the ride
\* keeps qualifying for that user.
C1_AtMostOncePerRun ==
    [][ RideTick =>
          \A u \in Users, r \in Rides :
             ( /\ runState[u][r] = "sent"
               /\ QualifiesFor(u, r, userPreferences, parkDataCache) )
             => r \notin RidesQueuedFor(u, queued') ]_vars

\* C2: re-arm. A ride that qualified at one tick, did not qualify at a later
\* tick and qualifies again at this tick is named in a message queued by this
\* tick for the user, provided the user holds a valid token at this tick.
C2_ReArm ==
    [][ RideTick =>
          \A u \in Users, r \in Rides :
             ( /\ runState[u][r] = "left"
               /\ QualifiesFor(u, r, userPreferences, parkDataCache)
               /\ ValidToken(u) )
             => r \in RidesQueuedFor(u, queued') ]_vars

\* ====================================================================
\* Claims about the schedule engine (SpecSched)
\* ====================================================================

\* C3: archival completeness. After autoArchivePastDates has run with
\* today = D, no live store of any user holds anything under a date < D, and
\* the archive entry of every such date that held something equals the shows,
\* dining and Lightning Lane contents that were live just before the sweep.
C3_ArchivalCompleteness ==
    [][ lastOp' = "autoArchivePastDates" =>
          \A u \in Users, d \in Dates :
             d < Today =>
               /\ userShowSchedules'[u][d] = NoList
               /\ userDiningSchedules'[u][d] = <<>>
               /\ userLightningLanes'[u][d] = NoLanes
               /\ ( \/ userShowSchedules[u][d] # NoList
                    \/ userDiningSchedules[u][d] # <<>>
                    \/ userLightningLanes[u][d] # NoLanes )
                  => archivedSchedules'[u][d] =
                        [shows |-> ListOf(userShowSchedules, u, d),
                         dining |-> userDiningSchedules[u][d],
                         lightningLanes |-> userLightningLanes[u][d]] ]_vars

\* C4: an archive entry is never changed or replaced once written; it only
\* disappears through the explicit archive delete.
C4_ArchiveImmutable ==
    [][ \A u \in Users, d \in Dates :
          archivedSchedules[u][d] # NoEntry =>
             \/ archivedSchedules'[u][d] = archivedSchedules[u][d]
             \/ lastOp' = "deleteArchive" /\ archivedSchedules'[u][d] = NoEntry ]_vars

\* C5: for every show in today's list of a user the evaluation visits, one
\* evaluation queues a "show" message and sets notified exactly when
\* now >= selectedTime - travelTime and notified was false, and independently
\* queues a "show-warning" message and sets finalWarningNotified exactly when
\* now >= selectedTime - 5 and finalWarningNotified was false; a show with
\* travelTime 3 that crosses both thresholds in one evaluation gets exactly two
\* messages, one of each kind.
C5_ShowTwoStage ==
    [][ lastOp' = "checkEventReminders" =>
          \A u \in Users :
            ValidToken(u) =>
              /\ Len(ListOf(userShowSchedules', u, Today))
                   = Len(ListOf(userShowSchedules, u, Today))
              /\ \A i \in 1..Len(ListOf(userShowSchedules, u, Today)) :
                   LET show == userShowSchedules[u][Today][i]
                       after == userShowSchedules'[u][Today][i]
                       main == now >= show.selectedTime - show.travelTime /\ ~show.notified
                       final == now >= show.selectedTime - 5 /\ ~show.finalWarningNotified
                       mainMsgs == MessagesFor(queued', u, "show", show.showId, i)
                       finalMsgs == MessagesFor(queued', u, "show-warning", show.showId, i)
                   IN /\ Cardinality(mainMsgs) = (IF main THEN 1 ELSE 0)
                      /\ Cardinality(finalMsgs) = (IF final THEN 1 ELSE 0)
                      /\ after.notified = (show.notified \/ main)
                      /\ after.finalWarningNotified = (show.finalWarningNotified \/ final)
                      /\ (show.travelTime = 3 /\ main /\ final)
                           => Cardinality(mainMsgs \cup finalMsgs) = 2 ]_vars

\* A show with travel time 3 has just had both reminders queued in one evaluation.
C5_Witness ==
    /\ lastOp = "checkEventReminders"
    /\ \E u \in Users :
         /\ ValidToken(u)
         /\ \E i \in 1..Len(ListOf(userShowSchedules, u, Today)) :
              LET show == userShowSchedules[u][Today][i]
              IN /\ show.travelTime = 3
                 /\ show.notified /\ show.finalWarningNotified
                 /\ MessagesFor(queued, u, "show", show.showId, i) # {}
                 /\ MessagesFor(queued, u, "show-warning", show.showId, i) # {}

\* The engine's own functions: the two evaluators, the dispatcher and the sweep.
EngineStep ==
    lastOp' \in {"checkEventReminders", "checkAndNotifyUsers", "checkAndNotifyUsersThrew",
                 "autoArchivePastDates", "gatewayThrows", "gatewayAnswers"}

\* Where the items stored under (u, d) are after a step: still in the live
\* store, or in the archive entry the step wrote for the date.
ShowsAfterStep(u, d) ==
    IF userShowSchedules'[u][d] # NoList THEN userShowSchedules'[u][d]
    ELSE archivedSchedules'[u][d].shows
DiningAfterStep(u, d) ==
    IF userShowSchedules[u][d] # NoList /\ userShowSchedules'[u][d] = NoList
      THEN archivedSchedules'[u][d].dining ELSE userDiningSchedules'[u][d]
LanesAfterStep(u, d) ==
    IF userShowSchedules[u][d] # NoList /\ userShowSchedules'[u][d] = NoList
      THEN archivedSchedules'[u][d].lightningLanes ELSE userLightningLanes'[u][d]

\* C6: monotonic flags. No step of checkEventReminders, checkAndNotifyUsers,
\* sendPushNotifications or autoArchivePastDates turns a set notified or
\* finalWarningNotified flag of a show, dining item or lane back to false, and
\* an evaluation queues no message for a stage whose flag is already set.
C6_MonotonicFlags ==
    [][ EngineStep =>
          \A u \in Users, d \in Dates :
            /\ \A i \in 1..Len(ListOf(userShowSchedules, u, d)) :
                 LET show == userShowSchedules[u][d][i]
                 IN /\ Len(ShowsAfterStep(u, d)) >= i
                    /\ show.notified =>
                         /\ ShowsAfterStep(u, d)[i].notified
                         /\ MessagesFor(queued', u, "show", show.showId, i) = {}
                    /\ show.finalWarningNotified =>
                         /\ ShowsAfterStep(u, d)[i].finalWarningNotified
                         /\ MessagesFor(queued', u, "show-warning", show.showId, i) = {}
            /\ \A i \in 1..Len(userDiningSchedules[u][d]) :
                 LET dining == userDiningSchedules[u][d][i]
                 IN /\ Len(DiningAfterStep(u, d)) >= i
                    /\ dining.notified =>
                         /\ DiningAfterStep(u, d)[i].notified
                         /\ MessagesFor(queued', u, "dining", dining.id, i) = {}
            /\ \A r \in LaneRides :
                 LET lane == userLightningLanes[u][d][r]
                 IN lane # NoEntry =>
                      /\ LanesAfterStep(u, d)[r] # NoEntry
                      /\ lane.notified =>
                           /\ LanesAfterStep(u, d)[r].notified
                           /\ MessagesFor(queued', u, "lightning-lane", r, 0) = {} ]_vars

\* An evaluation has just visited a user's show whose reminder flag was
\* already set, and queued nothing for that stage.
C6_Witness ==
    /\ lastOp = "checkEventReminders"
    /\ \E u \in Users :
         /\ ValidToken(u)
         /\ \E i \in 1..Len(ListOf(userShowSchedules, u, Today)) :
              LET show == userShowSchedules[u][Today][i]
              IN /\ show.notified
                 /\ MessagesFor(queued, u, "show", show.showId, i) = {}

\* C7: a set flag of a scheduled item goes back to false only through a user
\* edit that changes the item's target time or travel time.
C7_ResetOnlyByTimingEdit ==
    [][ \A u \in Users, d \in Dates :
          /\ \A i \in 1..Len(userDiningSchedules[u][d]),
                j \in 1..Len(userDiningSchedules'[u][d]) :
               LET old == userDiningSchedules[u][d][i]
                   new == userDiningSchedules'[u][d][j]
               IN (old.id = new.id /\ old.notified /\ ~new.notified)
                    => (new.time # old.time \/ new.travelTime # old.travelTime)
          /\ \A r \in LaneRides :
               LET old == userLightningLanes[u][d][r]
                   new == userLightningLanes'[u][d][r]
               IN (old # NoEntry /\ new # NoEntry /\ old.notified /\ ~new.notified)
                    => (new.returnTime # old.returnTime \/ new.travelTime # old.travelTime)
          /\ \A i \in 1..Len(ListOf(userShowSchedules, u, d)) :
               i <= Len(ListOf(userShowSchedules', u, d)) =>
                 LET old == userShowSchedules[u][d][i]
                     new == userShowSchedules'[u][d][i]
                 IN ( /\ old.showId = new.showId
                      /\ \/ old.notified /\ ~new.notified
                         \/ old.finalWarningNotified /\ ~new.finalWarningNotified )
                      => (new.selectedTime # old.selectedTime
                            \/ new.travelTime # old.travelTime) ]_vars

\* C8: an update that changes an item's target time or travel time leaves the
\* item's flags false in the state the update produces.
C8_TimingEditResetsFlags ==
    [][ \A u \in Users, d \in Dates :
          /\ \A i \in 1..Len(userDiningSchedules[u][d]),
                j \in 1..Len(userDiningSchedules'[u][d]) :
               LET old == userDiningSchedules[u][d][i]
                   new == userDiningSchedules'[u][d][j]
               IN (old.id = new.id
                     /\ (new.time # old.time \/ new.travelTime # old.travelTime))
                    => ~new.notified
          /\ \A r \in LaneRides :
               LET old == userLightningLanes[u][d][r]
                   new == userLightningLanes'[u][d][r]
               IN (old # NoEntry /\ new # NoEntry
                     /\ (new.returnTime # old.returnTime \/ new.travelTime # old.travelTime))
                    => ~new.notified
          /\ \A i \in 1..Len(ListOf(userShowSchedules, u, d)) :
               i <= Len(ListOf(userShowSchedules', u, d)) =>
                 LET old == userShowSchedules[u][d][i]
                     new == userShowSchedules'[u][d][i]
                 IN ( /\ old.showId = new.showId
                      /\ \/ new.selectedTime # old.selectedTime
                         \/ new.travelTime # old.travelTime )
                      => (~new.notified /\ ~new.finalWarningNotified) ]_vars

\* A dining update has just changed the travel time of a reservation whose
\* reminder had already been sent; the flag is false again.
C8_Witness ==
    /\ lastOp = "updateNotifiedDining"
    /\ \E u \in Users, d \in Dates :
         \E i \in 1..Len(userDiningSchedules[u][d]) :
            LET dining == userDiningSchedules[u][d][i]
            IN /\ dining.travelTime = 30
               /\ now >= dining.time - 20
               /\ d = Today
               /\ ValidToken(u)
               /\ ~dining.notified

\* ====================================================================
\* Per-user isolation of a ride tick (SpecRide)
\* ====================================================================
\* C10: within one ride tick every user whose own stored data is well formed
\* and who holds a valid token is evaluated, whatever the other users' stored
\* preferences are: the user's notified set becomes the rides ready for the
\* user, and every newly ready ride is named in a message handed to the
\* dispatcher.
C10_PerUserIsolation ==
    [][ RideTick =>
          \A u \in SeqToSet(prefOrder) :
             (ValidToken(u) /\ userPreferences[u] \in PrefMaps) =>
                LET ready == RideIds(readyRidesOf(userPreferences[u], parkDataCache))
                IN /\ notifiedRides'[u] = ready
                   /\ \A r \in ready \ NotifiedOf(notifiedRides, u) :
                         r \in RidesQueuedFor(u, queued') ]_vars

\* ====================================================================
\* Both engines over one minute tick after another (SpecTick)
\* ====================================================================
TickUser == "u1"
TickToken == "ExponentPushToken[a]"

NextTick ==
    \/ UpdateParkDataCache("disneyland")
    \/ \E preferences \in PrefMaps : SavePreferences(TickUser, preferences)
    \/ RegisterDevice(TickUser, TickToken)
    \/ UnregisterDevice(TickUser)
    \/ AdvanceClock
    \/ \E d \in Dates : AddDining(TickUser, d, TargetTime(d), "lunch", 20)
    \/ \E d \in Dates, body \in DiningBodies : UpdateDining(TickUser, d, 1, body)
    \/ \E d \in Dates : AddShow(TickUser, d, "S1", TargetTime(d), 20)
    \/ CheckAndNotifyUsers
    \/ CheckEventReminders
    \/ \E i \in 1..MaxInFlight : GatewayThrows(i)
    \/ \E i \in 1..MaxInFlight : GatewayAnswers(i)

SpecTick == Init /\ [][NextTick]_vars

GatewayStep == lastOp' \in {"gatewayThrows", "gatewayAnswers"}

\* The batches of all dispatcher calls in progress.
BatchesInFlight(calls) == Len(Flatten(calls))

\* A gateway step takes its batch out of the dispatcher and puts nothing
\* back: no message is queued for retry, and the notified sets and the
\* reminder flags stay as the evaluations left them.
NotQueuedForRetry ==
    GatewayStep =>
       /\ BatchesInFlight(inflight') = BatchesInFlight(inflight) - 1
       /\ queued' = <<>>
       /\ UNCHANGED <<notifiedRides, schedVars>>

\* C9 as stated: a retryable failure is not queued for retry, and a condition
\* of a failed message that is still true at the next tick (the ride still
\* ready, the reminder threshold still passed) is offered again by that
\* tick's evaluation to a user holding a valid token.
C9_OfferedAgainNextTick ==
    [][ /\ NotQueuedForRetry
        /\ \A k \in 1..Len(dropped) :
             LET m == dropped[k]
             IN ValidToken(m.user) =>
                  /\ (m.type = "ride" /\ lastOp' = "checkAndNotifyUsers") =>
                        \A r \in SeqToSet(m.rides) :
                           QualifiesFor(m.user, r, userPreferences, parkDataCache)
                             => r \in RidesQueuedFor(m.user, queued')
                  /\ (m.type # "ride" /\ lastOp' = "checkEventReminders") =>
                        ( ReminderDue(m) =>
                            MessagesFor(queued', m.user, m.type, m.item, m.index) # {} )
      ]_vars

\* C9 amended: a retryable failure is not queued for retry and changes neither
\* the notified sets nor the reminder flags; hence no later tick offers the
\* failed message's condition again while it stays true: a ride still ready
\* and still in the user's notified set is not named again, a reminder still
\* due whose flag is still set is not queued again.
C9_DroppedNotOfferedAgain ==
    [][ /\ NotQueuedForRetry
        /\ \A k \in 1..Len(dropped) :
             LET m == dropped[k]
             IN /\ (m.type = "ride" /\ RideTick) =>
                     \A r \in SeqToSet(m.rides) :
                        ( /\ QualifiesFor(m.user, r, userPreferences, parkDataCache)
                          /\ r \in NotifiedOf(notifiedRides, m.user) )
                        => r \notin RidesQueuedFor(m.user, queued')
                /\ (m.type # "ride" /\ lastOp' = "checkEventReminders") =>
                     ( (ReminderDue(m) /\ ReminderFlagged(m)) =>
                         MessagesFor(queued', m.user, m.type, m.item, m.index) = {} )
      ]_vars

\* A ride tick and a reminder evaluation have both run after a retryable
\* failure, the user holds a valid token, the failed ride message's ride is
\* still ready and the failed reminder is still due, and neither was queued
\* again.
C9_Witness ==
    /\ lastOp \in {"checkAndNotifyUsers", "checkEventReminders"}
    /\ queued = <<>>
    /\ \E k \in 1..Len(dropped) :
         LET m == dropped[k]
         IN /\ m.type = "ride"
            /\ ValidToken(m.user)
            /\ \E r \in SeqToSet(m.rides) :
                  QualifiesFor(m.user, r, userPreferences, parkDataCache)
    /\ \E k \in 1..Len(dropped) :
         LET m == dropped[k]
         IN /\ m.type # "ride"
            /\ ValidToken(m.user)
            /\ ReminderDue(m)

\* ====================================================================
\* Terminal delivery failures, the notified set, idempotence (SpecRide)
\* ====================================================================
\* A completed evaluation of either engine.
EvaluationStep == lastOp' \in {"checkAndNotifyUsers", "checkEventReminders"}

\* The addresses the last gateway answer reported as invalid.
InvalidAddresses(msgs) == { msgs[k].to : k \in 1..Len(msgs) }

\* C11: when a ticket reports DeviceNotRegistered for a message addressed to
\* user U's token, U holds no registration with that token once the answer
\* has been handled; a user without registration is absent already and
\* stays so, no other registration is touched; and an evaluation queues no
\* message for a user who holds no valid registration.
C11_InvalidAddressRemoved ==
    [][ /\ lastOp' = "gatewayAnswers" =>
             /\ \A k \in 1..Len(terminal') :
                   userDeviceTokens'[terminal'[k].user] # terminal'[k].to
             /\ \A u \in Users :
                   IF userDeviceTokens[u] \in InvalidAddresses(terminal')
                     THEN userDeviceTokens'[u] = NoToken
                     ELSE userDeviceTokens'[u] = userDeviceTokens[u]
        /\ EvaluationStep =>
             \A u \in Users :
                ~ValidToken(u) =>
                   \A k \in 1..Len(queued') : queued'[k].user # u ]_vars

\* The gateway has just reported the token of a message's user as invalid,
\* and that user's registration is gone.
C11_Witness ==
    /\ lastOp = "gatewayAnswers"
    /\ \E k \in 1..Len(terminal) :
          /\ terminal[k].type = "ride"
          /\ userDeviceTokens[terminal[k].user] = NoToken

\* The rides the snapshot holds that satisfy user u's stored preference.
CurrentlyReady(u) ==
    { r \in Rides : QualifiesFor(u, r, userPreferences, parkDataCache) }

\* C12: a ride is in notifiedRides[u] exactly when the most recent evaluation
\* of u found it ready. A completed cycle replaces the set of every user it
\* evaluates with the rides it found ready for that user, and no other step
\* (a delivery outcome, a request, a refresh) changes the content of the set.
C12_NotifiedSetInvariant ==
    [][ \A u \in Users :
          /\ ( /\ lastOp' = "checkAndNotifyUsers"
               /\ u \in SeqToSet(prefOrder)
               /\ ValidToken(u) )
               => notifiedRides'[u] = CurrentlyReady(u)
          /\ ~RideTick
               => NotifiedOf(notifiedRides', u) = NotifiedOf(notifiedRides, u) ]_vars

\* What checkAndNotifyUsers would compute if it ran on the current state.
SecondRun ==
    EvaluateUsers(prefOrder,
                  [notified |-> notifiedRides, messages |-> <<>>, threw |-> FALSE],
                  userPreferences, userDeviceTokens, parkDataCache)

\* C13: idempotence. Right after a completed ride evaluation, a second
\* evaluation of the same snapshot and preferences with the notified sets
\* the first one stored finds no newly ready ride: it queues no message and
\* stores the same sets.
C13_Idempotent ==
    lastOp = "checkAndNotifyUsers" =>
       /\ ~SecondRun.threw
       /\ SecondRun.messages = <<>>
       /\ SecondRun.notified = notifiedRides

\* The scenario of the claim: preference R1 {enabled, maxWait 30}, snapshot
\* R1 OPERATING with wait 25; the first run has just named R1 for the user
\* and a second run would name nothing.
C13_Witness ==
    /\ lastOp = "checkAndNotifyUsers"
    /\ \E u \in Users :
          /\ "R1" \in RidesQueuedFor(u, queued)
          /\ userPreferences[u]["R1"] = [enabled |-> TRUE, maxWait |-> 30]
          /\ parkDataCache["disneyland"]
               = <<[id |-> "R1", status |-> "OPERATING", currentWait |-> 25]>>
          /\ notifiedRides[u] = {"R1"}
    /\ SecondRun.messages = <<>>

\* ====================================================================
\* The qualification rule in the evaluator and in the ready-rides queries
\* (SpecQuery)
\* ====================================================================
\* The test of the ready-rides route of disneyDiningService.js (lines 974-975).
QueryQualifies(pref, ride) ==
    /\ pref # NoEntry
    /\ pref.enabled
    /\ ride.currentWait <= pref.maxWait
    /\ (ride.status = "OPERATING" \/ ride.status = "DOWN")

\* The test of the ready-rides route of server.js (line 379).
ServerQueryQualifies(pref, ride) ==
    /\ pref # NoEntry
    /\ pref.enabled
    /\ ride.currentWait <= pref.maxWait
    /\ ride.status = "OPERATING"

\* Object.keys of a map, in some fixed order.
RECURSIVE KeysOf(_)
KeysOf(S) ==
    IF S = {} THEN <<>>
    ELSE LET x == CHOOSE y \in S : TRUE IN <<x>> \o KeysOf(S \ {x})

\* Variant: the route walks the preferences and answers every enabled one
\* whose ride is not known to wait longer than maxWait.
ReadyRidesResponse_ByPreference(preferences, cache) ==
    IF preferences \in {NoEntry, Undefined} THEN <<>>
    ELSE LET known == SnapshotRides(cache)
             ids == KeysOf(DOMAIN preferences)
             Q(r) == /\ preferences[r] # NoEntry
                     /\ preferences[r].enabled
                     /\ \A i \in 1..Len(known) :
                           known[i].id = r =>
                             QueryQualifies(preferences[r], known[i])
         IN [i \in 1..Len(SelectSeq(ids, Q)) |-> [id |-> SelectSeq(ids, Q)[i]]]

\* The readyRides array the route of disneyDiningService.js answers with;
\* no stored preferences answer the empty array (lines 967-969).
ReadyRidesResponse(preferences, cache) ==
    IF preferences \in {NoEntry, Undefined} THEN <<>>
    ELSE LET Q(ride) == QueryQualifies(preferences[ride.id], ride)
         IN SelectSeq(SnapshotRides(cache), Q)

\* The readyRides array the route of server.js answers with (lines 366-387).
ServerReadyRidesResponse(preferences, cache) ==
    IF preferences \in {NoEntry, Undefined} THEN <<>>
    ELSE LET Q(ride) == ServerQueryQualifies(preferences[ride.id], ride)
         IN SelectSeq(SnapshotRides(cache), Q)

\* The answer of a route, kept in the history of handed-over messages.
Response(kind, u, rides) ==
    [to |-> "", type |-> kind, user |-> u,
     rides |-> [i \in 1..Len(rides) |-> rides[i].id]]

\* GET /api/users/:userId/ready-rides of disneyDiningService.js (lines 963-993).
GetReadyRides(u) ==
    /\ Did("readyRides",
           <<Response("readyRides", u,
                ReadyRidesResponse(userPreferences[u], parkDataCache))>>,
           dropped)
    /\ UNCHANGED <<rideVars, userDeviceTokens, schedVars, archivedSchedules,
                   now, inflight, runState,
                   procVars>>

\* GET /api/users/:userId/ready-rides of server.js (lines 364-394), a server
\* of its own, here given the same stored preferences and snapshot.
ServerGetReadyRides(u) ==
    /\ Did("serverReadyRides",
           <<Response("serverReadyRides", u,
                ServerReadyRidesResponse(userPreferences[u], parkDataCache))>>,
           dropped)
    /\ UNCHANGED <<rideVars, userDeviceTokens, schedVars, archivedSchedules,
                   now, inflight, runState,
                   procVars>>

\* Every combination of status, wait and preference for the one ride.
QueryStatuses == {"OPERATING", "DOWN", "CLOSED", "REFURBISHMENT"}
QueryWaits == {0, 29, 30, 31}
QuerySnapshots ==
    {<<>>} \cup { <<[id |-> "R1", status |-> st, currentWait |-> w]>> :
                    st \in QueryStatuses, w \in QueryWaits }
QueryPrefs ==
    [Rides -> {NoEntry} \cup { [enabled |-> e, maxWait |-> m] :
                                 e \in BOOLEAN, m \in {0, 30} }]

\* One user with a registered device, any snapshot of the ride, any stored
\* preference or none.
InitQuery ==
    /\ parkDataCache \in { [p \in ParkNames |->
                              IF p = "disneyland" THEN snap ELSE <<>>] :
                           snap \in QuerySnapshots }
    /\ userPreferences \in { [u \in Users |-> IF u = TickUser THEN pr ELSE NoEntry] :
                             pr \in QueryPrefs \cup {NoEntry} }
    /\ prefOrder = IF userPreferences[TickUser] = NoEntry THEN <<>> ELSE <<TickUser>>
    /\ userDeviceTokens = [u \in Users |-> IF u = TickUser THEN TickToken ELSE NoToken]
    /\ notifiedRides = [u \in Users |-> IF u = TickUser THEN {} ELSE NoSet]
    /\ userShowSchedules = EmptySchedule
    /\ userDiningSchedules = [u \in Users |-> [d \in Dates |-> <<>>]]
    /\ userLightningLanes = [u \in Users |-> [d \in Dates |-> NoLanes]]
    /\ archivedSchedules = [u \in Users |-> [d \in Dates |-> NoEntry]]
    /\ now = 0
    /\ inflight = <<>>
    /\ lastOp = "start"
    /\ queued = <<>>
    /\ dropped = <<>>
    /\ terminal = <<>>
    /\ runState = [u \in Users |-> [r \in Rides |-> "never"]]
    /\ host = 0
    /\ cron = NoTick
    /\ turn = NoTurn

NextQuery ==
    \/ GetReadyRides(TickUser)
    \/ ServerGetReadyRides(TickUser)
    \/ CheckAndNotifyUsers
    \/ \E i \in 1..MaxInFlight : GatewayThrows(i)
    \/ \E i \in 1..MaxInFlight : GatewayAnswers(i)

SpecQuery == InitQuery /\ [][NextQuery]_vars

\* The rides the rule of the specification makes ready for user u: enabled,
\* status OPERATING or DOWN, currentWait <= maxWait.
RuleReady(u) ==
    IF userPreferences[u] \in {NoEntry, Undefined} THEN {}
    ELSE LET rides == SnapshotRides(parkDataCache)
         IN { rides[i].id : i \in { j \in 1..Len(rides) :
                LET pref == userPreferences[u][rides[j].id]
                IN /\ pref # NoEntry
                   /\ pref.enabled = TRUE
                   /\ rides[j].status \in {"OPERATING", "DOWN"}
                   /\ rides[j].currentWait <= pref.maxWait } }

\* C14: a ride qualifies exactly when the preference is enabled, the status is
\* OPERATING or DOWN and currentWait <= maxWait, and this rule is the one the
\* notification evaluator applies (the set it stores for a user it evaluates)
\* and the one each ready-rides query answers with.
C14_SameQualifyRule ==
    [][ /\ lastOp' = "checkAndNotifyUsers" =>
             \A u \in SeqToSet(prefOrder) :
                ValidToken(u) => notifiedRides'[u] = RuleReady(u)
        /\ lastOp' \in {"readyRides", "serverReadyRides"} =>
             \A k \in 1..Len(queued') :
                SeqToSet(queued'[k].rides) = RuleReady(queued'[k].user) ]_vars

\* ====================================================================
\* Timing of the reminders, minute by minute (SpecTimes)
\* ====================================================================
\* The instants of this specification: around the thresholds of a 14:00
\* event of day 0 (13:39, 13:40 for a travel time of 20; 13:54, 13:55, 13:56
\* for the final warning), ten minutes before local midnight, and local
\* midnight of every later day.
FineInstants ==
    {13 * 60 + 39, 13 * 60 + 40, 13 * 60 + 54, 13 * 60 + 55, 13 * 60 + 56,
     23 * 60 + 50}
      \cup { d * MinutesPerDay : d \in 1..MaxDay }

\* Time passes up to one of these instants.
AdvanceClockFine ==
    /\ \E t \in FineInstants : t > now /\ now' = t
    /\ Did("clock", <<>>, dropped)
    /\ UNCHANGED <<rideVars, userDeviceTokens, schedVars, archivedSchedules,
                   inflight, runState,
                   procVars>>

\* 00:10 on day d: a target time whose reminder threshold, for a travel time
\* of 20, lies on the day before.
EarlyTime(d) == d * MinutesPerDay + 10

NextTimes ==
    \/ AdvanceClockFine
    \/ RegisterDevice(TickUser, TickToken)
    \/ \E d \in Dates : AddShow(TickUser, d, "S1", TargetTime(d), 20)
    \/ \E d \in Dates : \E t \in {TargetTime(d), EarlyTime(d)} :
          AddDining(TickUser, d, t, "lunch", 20)
    \/ \E d \in Dates : AddLane(TickUser, d, "R1", TargetTime(d), 20)
    \/ \E d \in Dates : DeleteShow(TickUser, d, "S1")
    \/ \E d \in Dates, id \in 1..MaxItems : DeleteDining(TickUser, d, id)
    \/ \E d \in Dates : DeleteLane(TickUser, d, "R1")
    \/ CheckEventReminders
    \/ AutoArchivePastDates
    \/ \E i \in 1..MaxInFlight : GatewayThrows(i)
    \/ \E i \in 1..MaxInFlight : GatewayAnswers(i)

SpecTimes == Init /\ [][NextTimes]_vars

\* C15: correct timing. For a user holding a valid token, an evaluation
\* queues the message of every stored item of today or a later date whose
\* threshold (target time - travel time; target time - 5 minutes for a show's
\* final warning) has been reached and whose flag is not set yet, also when
\* the threshold lies on the day before the item's date key.
C15_CorrectTiming ==
    [][ lastOp' = "checkEventReminders" =>
          \A u \in Users, d \in Dates :
            (ValidToken(u) /\ d >= Today) =>
              /\ \A i \in 1..Len(ListOf(userShowSchedules, u, d)) :
                   LET show == userShowSchedules[u][d][i]
                   IN /\ (now >= show.selectedTime - show.travelTime /\ ~show.notified)
                         => MessagesFor(queued', u, "show", show.showId, i) # {}
                      /\ ( /\ now >= show.selectedTime - FinalWarningMinutes
                           /\ ~show.finalWarningNotified )
                         => MessagesFor(queued', u, "show-warning", show.showId, i) # {}
              /\ \A i \in 1..Len(userDiningSchedules[u][d]) :
                   LET dining == userDiningSchedules[u][d][i]
                   IN (now >= dining.time - dining.travelTime /\ ~dining.notified)
                        => MessagesFor(queued', u, "dining", dining.id, i) # {}
              /\ \A r \in LaneRides :
                   LET lane == userLightningLanes[u][d][r]
                   IN ( /\ lane # NoEntry
                        /\ now >= lane.returnTime - lane.travelTime
                        /\ ~lane.notified )
                        => MessagesFor(queued', u, "lightning-lane", r, 0) # {} ]_vars

\* C16: inclusive boundary. A show reminder fires at the tick whose minute
\* equals selectedTime - travelTime and at no earlier tick (14:00 with 20
\* minutes of travel: 13:40 fires, 13:39 does not); the final warning fires
\* from selectedTime - 5 minutes on and at no earlier tick (13:55 and 13:56
\* fire, 13:54 does not).
C16_InclusiveBoundary ==
    [][ lastOp' = "checkEventReminders" =>
          \A u \in Users :
            ValidToken(u) =>
              \A i \in 1..Len(ListOf(userShowSchedules, u, Today)) :
                LET show == userShowSchedules[u][Today][i]
                    threshold == show.selectedTime - show.travelTime
                    warning == show.selectedTime - FinalWarningMinutes
                    mainMsgs == MessagesFor(queued', u, "show", show.showId, i)
                    finalMsgs == MessagesFor(queued', u, "show-warning", show.showId, i)
                IN /\ now < threshold => mainMsgs = {}
                   /\ (now = threshold /\ ~show.notified) => Cardinality(mainMsgs) = 1
                   /\ now < warning => finalMsgs = {}
                   /\ (now \in warning..(warning + 1) /\ ~show.finalWarningNotified)
                        => Cardinality(finalMsgs) = 1 ]_vars

C16_Witness ==
    /\ lastOp = "checkEventReminders"
    /\ \E u \in Users :
         /\ ValidToken(u)
         /\ \E i \in 1..Len(ListOf(userShowSchedules, u, Today)) :
              LET show == userShowSchedules[u][Today][i]
              IN /\ now = show.selectedTime - show.travelTime
                 /\ show.notified /\ ~show.finalWarningNotified
                 /\ MessagesFor(queued, u, "show", show.showId, i) # {}
                 /\ MessagesFor(queued, u, "show-warning", show.showId, i) = {}

\* C17: only today's date key is evaluated. An evaluation leaves every item
\* stored under a date key other than today's exactly as it was, and the
\* messages it queues for a user are as many as the stages firing for the
\* items under today's key: an item of another date emits nothing, whatever
\* its target time is.
FiringToday(u) ==
    IF ~ValidToken(u) THEN 0
    ELSE LET shows == ListOf(userShowSchedules, u, Today)
             dinings == userDiningSchedules[u][Today]
             lanes == userLightningLanes[u][Today]
         IN Cardinality({ i \in 1..Len(shows) : ShowReminderFires(shows[i], now) })
            + Cardinality({ i \in 1..Len(shows) : FinalWarningFires(shows[i], now) })
            + Cardinality({ i \in 1..Len(dinings) : DiningReminderFires(dinings[i], now) })
            + Cardinality({ r \in LaneRides :
                              /\ lanes[r] # NoEntry
                              /\ LaneReminderFires(lanes[r], now) })

C17_OtherDatesNotEvaluated ==
    [][ lastOp' = "checkEventReminders" =>
          \A u \in Users :
            /\ \A d \in Dates \ {Today} :
                 /\ userShowSchedules'[u][d] = userShowSchedules[u][d]
                 /\ userDiningSchedules'[u][d] = userDiningSchedules[u][d]
                 /\ userLightningLanes'[u][d] = userLightningLanes[u][d]
            /\ Cardinality({ k \in 1..Len(queued') : queued'[k].user = u })
                 = FiringToday(u) ]_vars

C17_Witness ==
    /\ lastOp = "checkEventReminders"
    /\ \E u \in Users, d \in Dates \ {Today} :
         /\ ValidToken(u)
         /\ \E i \in 1..Len(userDiningSchedules[u][d]) :
              LET dining == userDiningSchedules[u][d][i]
              IN now >= dining.time - dining.travelTime /\ ~dining.notified
         /\ { k \in 1..Len(queued) : queued[k].user = u } = {}

\* C18: dining reservations and Lightning Lane entries are single-stage. For
\* each such item under today's key an evaluation queues exactly one reminder
\* and sets notified when now >= target time - travel time and notified was
\* false, and queues nothing for it otherwise; the only final warnings queued
\* are those of today's shows.
C18_SingleStage ==
    [][ lastOp' = "checkEventReminders" =>
          \A u \in Users :
            ValidToken(u) =>
              /\ Len(userDiningSchedules'[u][Today]) = Len(userDiningSchedules[u][Today])
              /\ \A i \in 1..Len(userDiningSchedules[u][Today]) :
                   LET dining == userDiningSchedules[u][Today][i]
                       after == userDiningSchedules'[u][Today][i]
                       due == now >= dining.time - dining.travelTime /\ ~dining.notified
                   IN /\ Cardinality(MessagesFor(queued', u, "dining", dining.id, i))
                           = (IF due THEN 1 ELSE 0)
                      /\ after.notified = (dining.notified \/ due)
              /\ \A r \in LaneRides :
                   LET lane == userLightningLanes[u][Today][r]
                       after == userLightningLanes'[u][Today][r]
                   IN IF lane = NoEntry
                        THEN /\ after = NoEntry
                             /\ MessagesFor(queued', u, "lightning-lane", r, 0) = {}
                        ELSE LET due == /\ now >= lane.returnTime - lane.travelTime
                                        /\ ~lane.notified
                             IN /\ Cardinality(MessagesFor(queued', u, "lightning-lane", r, 0))
                                     = (IF due THEN 1 ELSE 0)
                                /\ after.notified = (lane.notified \/ due)
              /\ Cardinality({ k \in 1..Len(queued') : /\ queued'[k].user = u
                                                       /\ queued'[k].type = "show-warning" })
                   = Cardinality({ i \in 1..Len(ListOf(userShowSchedules, u, Today)) :
                        LET show == userShowSchedules[u][Today][i]
                        IN /\ now >= show.selectedTime - FinalWarningMinutes
                           /\ ~show.finalWarningNotified }) ]_vars

C18_Witness ==
    /\ lastOp = "checkEventReminders"
    /\ \E u \in Users :
         /\ ValidToken(u)
         /\ \E i \in 1..Len(userDiningSchedules[u][Today]) :
              LET dining == userDiningSchedules[u][Today][i]
              IN /\ now >= dining.time - FinalWarningMinutes
                 /\ dining.notified
                 /\ Cardinality(MessagesFor(queued, u, "dining", dining.id, i)) = 1
         /\ Cardinality({ k \in 1..Len(queued) : queued[k].user = u }) = 1

\* ------------------------------------------------------------------------
\* Batches of one dispatch (SpecTimes)
\* ------------------------------------------------------------------------

\* C19: a failed batch does not block the later batches. An evaluation hands
\* its messages to the dispatcher as batches that hold them once each, in
\* order; when the gateway call for the batch at the gateway throws, only
\* that batch leaves the call, and the remaining batches stay in order with
\* the next one submitted, as after a call that succeeded.
C19_LaterBatchesSubmitted ==
    [][ /\ (lastOp' = "checkEventReminders" /\ queued' # <<>>) =>
             /\ Len(inflight') = Len(inflight) + 1
             /\ SubSeq(inflight', 1, Len(inflight)) = inflight
             /\ Flatten(inflight'[Len(inflight')]) = queued'
             /\ \A b \in 1..Len(inflight'[Len(inflight')]) :
                  Len(inflight'[Len(inflight')][b]) \in 1..ChunkLimit
        /\ lastOp' \in {"gatewayThrows", "gatewayAnswers"} =>
             \E i \in 1..Len(inflight) :
               IF Len(inflight[i]) = 1
                 THEN inflight' = RemoveAt(inflight, i)
                 ELSE /\ Len(inflight') = Len(inflight)
                      /\ inflight'[i] = Tail(inflight[i])
                      /\ \A j \in 1..Len(inflight) : j # i => inflight'[j] = inflight[j]
      ]_vars

C19_Witness ==
    /\ lastOp = "gatewayThrows"
    /\ dropped # <<>>
    /\ inflight # <<>>
    /\ LET failed == dropped[Len(dropped)]
           next == inflight[1][1][1]
       IN /\ failed.type = "show"
          /\ next.type = "show-warning"
          /\ next.user = failed.user

\* ------------------------------------------------------------------------
\* Delivery outcomes and the minute tick (SpecTick)
\* ------------------------------------------------------------------------

\* C20: no delivery outcome leaves the dispatcher as a throw or a rejection.
\* A thrown gateway call and tickets of any kind end the step of the batch
\* with the call continued or returned and the stores other than the token
\* registry untouched; an evaluation with no message returns from the
\* dispatcher at once; and the evaluations of later ticks still run.
C20_NeverThrowsOutOfTick ==
    [][ /\ lastOp' # "dispatchRejected"
        /\ lastOp' \in {"gatewayThrows", "gatewayAnswers"} =>
             /\ Len(inflight') \in {Len(inflight) - 1, Len(inflight)}
             /\ UNCHANGED <<rideVars, schedVars, archivedSchedules>>
        /\ (EvaluationStep /\ queued' = <<>>) => inflight' = inflight
        /\ (lastOp \in {"gatewayThrows", "gatewayAnswers"} /\ EvaluationStep) =>
             Flatten(Flatten(inflight')) = Flatten(Flatten(inflight)) \o queued'
      ]_vars

C20_Witness ==
    /\ lastOp = "checkEventReminders"
    /\ queued # <<>>
    /\ dropped # <<>>
    /\ inflight # <<>>

\* ------------------------------------------------------------------------
\* Failure modes of the ride evaluation and of the refresh (SpecRide)
\* ------------------------------------------------------------------------

\* C21: the ride evaluation never lets an exception escape. Whatever
\* preference values are stored and whatever the snapshot holds, a run of
\* checkAndNotifyUsers returns: it does not end in a throw, and every user
\* with a valid token is left with a notified set holding only rides of the
\* snapshot.
C21_EvaluationNeverThrows ==
    [][ RideTick =>
          /\ lastOp' = "checkAndNotifyUsers"
          /\ \A u \in SeqToSet(prefOrder) :
               ValidToken(u) =>
                 notifiedRides'[u] \subseteq RideIds(SnapshotRides(parkDataCache)) ]_vars

\* ------------------------------------------------------------------------
\* The ride-ready message (SpecMsg): one user, three monitored rides
\* ------------------------------------------------------------------------
MsgRides == {"R1", "R2", "R3"}

\* Snapshots with the three rides in iteration order R2, R1 (Disneyland),
\* R3 (California Adventure), each within or over the threshold of 30.
MsgSnapshots ==
    { [disneyland |-> <<[id |-> "R2", status |-> "OPERATING", currentWait |-> w2],
                        [id |-> "R1", status |-> "OPERATING", currentWait |-> w1]>>,
       californiaadventure |-> <<[id |-> "R3", status |-> "DOWN", currentWait |-> w3]>>] :
        w1 \in {25, 45}, w2 \in {20, 45}, w3 \in {0, 45} }

MsgPrefs == [MsgRides -> PrefEntries]

\* A refresh of both parks.
RefreshAll ==
    /\ \E snap \in MsgSnapshots : parkDataCache' = snap
    /\ Did("refresh", <<>>, dropped)
    /\ UNCHANGED <<userPreferences, prefOrder, notifiedRides, userDeviceTokens,
                   schedVars, archivedSchedules, now, inflight, runState,
                   procVars>>

InitMsg ==
    /\ parkDataCache \in MsgSnapshots
    /\ userPreferences \in { [u \in Users |-> IF u = TickUser THEN m ELSE NoEntry] :
                               m \in MsgPrefs }
    /\ prefOrder = <<TickUser>>
    /\ userDeviceTokens = [u \in Users |-> IF u = TickUser THEN TickToken ELSE NoToken]
    /\ notifiedRides \in { [u \in Users |-> IF u = TickUser THEN n ELSE NoSet] :
                             n \in SUBSET MsgRides }
    /\ userShowSchedules = EmptySchedule
    /\ userDiningSchedules = [u \in Users |-> [d \in Dates |-> <<>>]]
    /\ userLightningLanes = [u \in Users |-> [d \in Dates |-> NoLanes]]
    /\ archivedSchedules = [u \in Users |-> [d \in Dates |-> NoEntry]]
    /\ now = 0
    /\ inflight = <<>>
    /\ lastOp = "start"
    /\ queued = <<>>
    /\ dropped = <<>>
    /\ terminal = <<>>
    /\ runState = [u \in Users |-> [r \in Rides |-> "never"]]
    /\ host = 0
    /\ cron = NoTick
    /\ turn = NoTurn

NextMsg ==
    \/ RefreshAll
    \/ CheckAndNotifyUsers
    \/ \E i \in 1..MaxInFlight : GatewayThrows(i)
    \/ \E i \in 1..MaxInFlight : GatewayAnswers(i)

SpecMsg == InitMsg /\ [][NextMsg]_vars

\* The rides of the snapshot, in iteration order, that satisfy user u's
\* preference and are not in u's notified set.
NewlyQualifying(u) ==
    LET N(ride) == /\ QualifiesFor(u, ride.id, userPreferences, parkDataCache)
                   /\ ride.id \notin NotifiedOf(notifiedRides, u)
    IN SelectSeq(SnapshotRides(parkDataCache), N)

\* C23: ride-ready message construction. An evaluation queues no ride
\* message for a user with no newly qualifying ride and exactly one
\* otherwise; with one such ride the body names it and its wait; with n > 1
\* it names the first in snapshot order and n - 1 others, in the singular
\* form exactly when n - 1 = 1.
C23_MessageConstruction ==
    [][ lastOp' = "checkAndNotifyUsers" =>
          \A u \in SeqToSet(prefOrder) :
            ValidToken(u) =>
              LET new == NewlyQualifying(u)
                  n == Len(new)
                  msgs == { k \in 1..Len(queued') : /\ queued'[k].type = "ride"
                                                    /\ queued'[k].user = u }
              IN /\ n = 0 => msgs = {}
                 /\ n >= 1 =>
                      /\ Cardinality(msgs) = 1
                      /\ \A k \in msgs :
                           LET body == queued'[k].body
                           IN /\ body.name = new[1].id
                              /\ n = 1 => /\ body.form = "NAME is now WAIT min wait!"
                                          /\ body.wait = new[1].currentWait
                              /\ n = 2 => /\ body.form = "NAME and N other ride is ready!"
                                          /\ body.others = 1
                              /\ n > 2 => /\ body.form = "NAME and N other rides are ready!"
                                          /\ body.others = n - 1 ]_vars

C23_Witness ==
    /\ lastOp = "checkAndNotifyUsers"
    /\ \E k \in 1..Len(queued) :
         /\ queued[k].type = "ride"
         /\ queued[k].rides = <<"R2", "R3">>
         /\ queued[k].body.others = 1
         /\ "R1" \in notifiedRides[queued[k].user]

\* ------------------------------------------------------------------------
\* The date of "today" on hosts of several time zones (SpecZone)
\* ------------------------------------------------------------------------
\* Host settings: UTC, America/Los_Angeles (standard time), Europe/Paris.
HostOffsets == {0, -8 * 60, 60}

InitZone ==
    /\ StoresAtStart
    /\ host \in HostOffsets
    /\ cron = NoTick
    /\ turn = NoTurn

SpecZone == InitZone /\ [][NextTimes]_vars

\* The park's calendar day at park wall-clock time t.
ParkDate(t) == t \div MinutesPerDay

\* C24: at every instant and on every host, getTodayDateString is the
\* park's calendar day of that instant.
C24_LocalParkDate == getTodayDateString(now) = ParkDate(now)

\* ------------------------------------------------------------------------
\* Preferences naming rides the snapshot does not hold (SpecAbsent)
\* ------------------------------------------------------------------------
\* Snapshots holding R2 and R1, one of them or neither; R3 is never there.
AbsentSnapshots ==
    LET r1 == [id |-> "R1", status |-> "OPERATING", currentWait |-> 25]
        r2 == [id |-> "R2", status |-> "OPERATING", currentWait |-> 25]
    IN { [disneyland |-> d, californiaadventure |-> <<>>] :
           d \in {<<>>, <<r1>>, <<r2>>, <<r2, r1>>} }

RefreshAbsent ==
    /\ \E snap \in AbsentSnapshots : parkDataCache' = snap
    /\ Did("refresh", <<>>, dropped)
    /\ UNCHANGED <<userPreferences, prefOrder, notifiedRides, userDeviceTokens,
                   schedVars, archivedSchedules, now, inflight, runState, procVars>>

InitAbsent ==
    /\ parkDataCache \in AbsentSnapshots
    /\ userPreferences \in { [u \in Users |-> IF u = TickUser THEN m ELSE NoEntry] :
                               m \in MsgPrefs \cup {NoEntry} }
    /\ prefOrder = IF userPreferences[TickUser] = NoEntry THEN <<>> ELSE <<TickUser>>
    /\ userDeviceTokens = [u \in Users |-> IF u = TickUser THEN TickToken ELSE NoToken]
    /\ notifiedRides = [u \in Users |-> IF u = TickUser THEN {} ELSE NoSet]
    /\ userShowSchedules = EmptySchedule
    /\ userDiningSchedules = [u \in Users |-> [d \in Dates |-> <<>>]]
    /\ userLightningLanes = [u \in Users |-> [d \in Dates |-> NoLanes]]
    /\ archivedSchedules = [u \in Users |-> [d \in Dates |-> NoEntry]]
    /\ now = 0
    /\ inflight = <<>>
    /\ lastOp = "start"
    /\ queued = <<>>
    /\ dropped = <<>>
    /\ terminal = <<>>
    /\ runState = [u \in Users |-> [r \in Rides |-> "never"]]
    /\ host = 0
    /\ cron = NoTick
    /\ turn = NoTurn

NextAbsent ==
    \/ RefreshAbsent
    \/ \E u \in Users : GetReadyRides(u)
    \/ CheckAndNotifyUsers
    \/ \E i \in 1..MaxInFlight : GatewayThrows(i)
    \/ \E i \in 1..MaxInFlight : GatewayAnswers(i)

SpecAbsent == InitAbsent /\ [][NextAbsent]_vars

\* The rides the snapshot does not hold.
AbsentRides == MsgRides \ RideIds(SnapshotRides(parkDataCache))

\* C25: a preference naming a ride that the snapshot does not hold makes the
\* ride not ready and is no error. The ready-rides query answers, without
\* that ride, and with the empty list for a user with no stored preferences;
\* the evaluation returns, stores no such ride in the notified set and names
\* none in a message.
C25_AbsentRideNotReady ==
    [][ /\ lastOp' = "readyRides" =>
             /\ Len(queued') = 1
             /\ queued'[1].type = "readyRides"
             /\ SeqToSet(queued'[1].rides) \cap AbsentRides = {}
             /\ userPreferences[queued'[1].user] = NoEntry => queued'[1].rides = <<>>
        /\ RideTick =>
             /\ lastOp' = "checkAndNotifyUsers"
             /\ \A u \in SeqToSet(prefOrder) :
                  ValidToken(u) =>
                    /\ notifiedRides'[u] \cap AbsentRides = {}
                    /\ RidesQueuedFor(u, queued') \cap AbsentRides = {} ]_vars

C25_Witness ==
    /\ lastOp = "readyRides"
    /\ LET u == queued[1].user
       IN /\ userPreferences[u] # NoEntry
          /\ \E r \in AbsentRides : userPreferences[u][r].enabled
          /\ queued[1].rides # <<>>

\* ------------------------------------------------------------------------
\* Who creates and who removes archive entries (SpecArchive): two users
\* ------------------------------------------------------------------------
NextArchive ==
    \/ AdvanceClock
    \/ \E u \in Users, d \in Dates : AddShow(u, d, "S1", TargetTime(d), 20)
    \/ \E u \in Users, d \in Dates : DeleteShow(u, d, "S1")
    \/ \E d \in Dates : AddDining(TickUser, d, TargetTime(d), "lunch", 20)
    \/ \E d \in Dates : UpdateDining(TickUser, d, 1,
                              [time |-> Absent, type |-> <<"dinner">>, travelTime |-> Absent])
    \/ \E u \in Users, d \in Dates : DeleteArchive(u, d)
    \/ RegisterDevice(TickUser, TickToken)
    \/ CheckEventReminders
    \/ CheckAndNotifyUsers
    \/ AutoArchivePastDates
    \/ \E i \in 1..MaxInFlight : GatewayThrows(i)
    \/ \E i \in 1..MaxInFlight : GatewayAnswers(i)

SpecArchive == Init /\ [][NextArchive]_vars

\* The (user, date) pairs whose archive entry a step changes.
ArchiveChanges ==
    { ud \in Users \X Dates :
        archivedSchedules'[ud[1]][ud[2]] # archivedSchedules[ud[1]][ud[2]] }

\* C26: archive entries are created only by autoArchivePastDates and removed
\* only by the archive delete of that user and date. Any other step leaves
\* the archives as they are, a sweep removes no entry, an archive delete
\* removes the one entry it names and creates none, and the delete of an
\* absent archive changes nothing.
C26_ArchiveFrame ==
    [][ /\ lastOp' \notin {"autoArchivePastDates", "deleteArchive"} =>
             archivedSchedules' = archivedSchedules
        /\ lastOp' = "autoArchivePastDates" =>
             \A ud \in ArchiveChanges : archivedSchedules'[ud[1]][ud[2]] # NoEntry
        /\ lastOp' = "deleteArchive" =>
             /\ Cardinality(ArchiveChanges) = 1
             /\ \A ud \in ArchiveChanges :
                  /\ archivedSchedules[ud[1]][ud[2]] # NoEntry
                  /\ archivedSchedules'[ud[1]][ud[2]] = NoEntry ]_vars

C26_Witness ==
    /\ lastOp = "deleteArchive"
    /\ \E u \in Users, v \in Users, d \in Dates :
         /\ u # v
         /\ archivedSchedules[u][d] = NoEntry
         /\ archivedSchedules[v][d] # NoEntry

\* ------------------------------------------------------------------------
\* Saving and reading preferences (SpecPrefs)
\* ------------------------------------------------------------------------
\* The empty object {}.
EmptyPreferences == [r \in Rides |-> NoEntry]

\* Variant: the response keeps the enabled entries only.
PreferencesResponse_EnabledOnly(stored) ==
    IF stored \in {NoEntry, Undefined} THEN EmptyPreferences
    ELSE [r \in DOMAIN stored |->
            IF stored[r] # NoEntry /\ stored[r].enabled THEN stored[r] ELSE NoEntry]

\* userPreferences[userId] || {} (line 958).
PreferencesResponse(stored) ==
    IF stored \in {NoEntry, Undefined} THEN EmptyPreferences ELSE stored

\* GET /api/users/:userId/preferences (lines 954-960).
GetPreferences(u) ==
    /\ Did("getPreferences",
           <<PreferencesRecord("getPreferences", u,
                               PreferencesResponse(userPreferences[u]))>>,
           dropped)
    /\ UNCHANGED <<rideVars, userDeviceTokens, schedVars, archivedSchedules,
                   now, inflight, runState, procVars>>

NextPrefs ==
    \/ \E u \in Users, preferences \in PrefInputs : SavePreferences(u, preferences)
    \/ \E u \in Users : GetPreferences(u)
    \/ UpdateParkDataCache("disneyland")
    \/ RegisterDevice(TickUser, TickToken)
    \/ \E u \in Users : UnregisterDevice(u)
    \/ CheckAndNotifyUsers
    \/ \E i \in 1..MaxInFlight : GatewayThrows(i)
    \/ \E i \in 1..MaxInFlight : GatewayAnswers(i)

SpecPrefs == Init /\ [][NextPrefs]_vars

\* C27: preference round trip. A save stores the map it was given for its
\* user and leaves every other user's preferences as they were; no other
\* step changes any stored preferences; and a read answers with exactly the
\* map stored for the user.
C27_PreferenceRoundTrip ==
    [][ /\ lastOp' = "savePreferences" =>
             LET u == queued'[1].user
                 saved == queued'[1].body
             IN /\ userPreferences'[u] = saved
                /\ \A v \in Users \ {u} : userPreferences'[v] = userPreferences[v]
        /\ lastOp' # "savePreferences" => userPreferences' = userPreferences
        /\ lastOp' = "getPreferences" =>
             LET u == queued'[1].user
             IN userPreferences[u] \in PrefMaps =>
                  queued'[1].body = userPreferences[u] ]_vars

C27_Witness ==
    /\ lastOp = "getPreferences"
    /\ LET u == queued[1].user
       IN /\ userPreferences[u] \in PrefMaps
          /\ queued[1].body = userPreferences[u]
          /\ \E r \in Rides : ~userPreferences[u][r].enabled
          /\ \E v \in Users \ {u} :
               /\ userPreferences[v] \in PrefMaps
               /\ userPreferences[v] # userPreferences[u]

\* ------------------------------------------------------------------------
\* The minute tick as the cron callback runs it (SpecCron)
\* ------------------------------------------------------------------------
\* cron.schedule('*/1 * * * *') (lines 1365-1371): the callback starts
\* updateParkDataCache, which runs up to the first park's fetch. A refresh
\* ends within the timeouts of its requests (10 s each, lines 256-264), so
\* it is over when the next minute fires.
CronFires ==
    /\ cron.pos = 0
    /\ cron' = [pos |-> 1, failed |-> {}]
    /\ Did("cronFires", <<>>, dropped)
    /\ UNCHANGED <<rideVars, userDeviceTokens, schedVars, archivedSchedules,
                   now, inflight, runState, host, turn>>

\* fetchParkData threw (lines 270-273).
FetchFails == NoList

\* What a fetch of the tick can bring: the monitored ride of Disneyland
\* within or over the threshold, nothing monitored in the other park.
CronSnapshots(p) ==
    IF p = "disneyland"
    THEN { <<[id |-> "R1", status |-> "OPERATING", currentWait |-> w]>> : w \in {25, 45} }
    ELSE {<<>>}

FetchOutcomes(p) == CronSnapshots(p) \cup {FetchFails}

\* Variant: the park's cache is emptied when its fetch fails.
CacheAfterFailedFetch_Cleared(old) == <<>>

\* The catch of lines 520-522 only logs: the cache entry is not assigned.
CacheAfterFailedFetch(old) == old

CacheAfterFetch(old, outcome) ==
    IF outcome = FetchFails THEN CacheAfterFailedFetch(old) ELSE outcome

FailedAfterFetch(failed, p, outcome) ==
    IF outcome = FetchFails THEN failed \cup {p} ELSE failed

\* The fetch of a park other than the last settles: the loop of
\* updateParkDataCache stores or logs and goes on to the next park.
FetchSettles(outcome) ==
    /\ cron.pos \in 1..(Len(Parks) - 1)
    /\ outcome \in FetchOutcomes(Parks[cron.pos])
    /\ parkDataCache' = [parkDataCache EXCEPT
                           ![Parks[cron.pos]] = CacheAfterFetch(@, outcome)]
    /\ cron' = [pos |-> cron.pos + 1,
                failed |-> FailedAfterFetch(cron.failed, Parks[cron.pos], outcome)]
    /\ Did(IF outcome = FetchFails THEN "fetchFailed" ELSE "refresh", <<>>, dropped)
    /\ UNCHANGED <<userPreferences, prefOrder, notifiedRides, userDeviceTokens,
                   schedVars, archivedSchedules, now, inflight, runState, host, turn>>

\* The fetch of the last park settles: updateParkDataCache returns and the
\* then-callback (lines 1367-1370) runs checkAndNotifyUsers and
\* checkEventReminders in the same turn, each up to the await of its
\* dispatcher call. A rejection of checkAndNotifyUsers is not awaited, so
\* checkEventReminders runs all the same.
TickCompletes(outcome) ==
    LET p == Parks[cron.pos]
        cache == [parkDataCache EXCEPT ![p] = CacheAfterFetch(@, outcome)]
        res == EvaluateUsers(prefOrder,
                   [notified |-> notifiedRides, messages |-> <<>>, threw |-> FALSE],
                   userPreferences, userDeviceTokens, cache)
        rideMessages == IF res.threw THEN <<>> ELSE res.messages
        today == getTodayDateString(now)
        reminders == ReminderMessages(userDeviceTokens, userShowSchedules,
                         userDiningSchedules, userLightningLanes, today, now)
    IN /\ cron.pos = Len(Parks)
       /\ outcome \in FetchOutcomes(p)
       /\ CanDispatch
       /\ today \in Dates
       /\ parkDataCache' = cache
       /\ notifiedRides' = res.notified
       /\ userShowSchedules' =
            ShowsAfterReminders(userDeviceTokens, userShowSchedules, today, now)
       /\ userDiningSchedules' =
            DiningAfterReminders(userDeviceTokens, userDiningSchedules, today, now)
       /\ userLightningLanes' =
            LanesAfterReminders(userDeviceTokens, userLightningLanes, today, now)
       /\ inflight' = sendPushNotifications(
                         sendPushNotifications(inflight, rideMessages), reminders)
       /\ cron' = [pos |-> 0, failed |-> FailedAfterFetch(cron.failed, p, outcome)]
       /\ Did(IF res.threw THEN "cronTickThrew" ELSE "cronTick",
              rideMessages \o reminders,
              DroppedAfterReminderTick(
                  DroppedAfterRideTick(dropped, userPreferences, cache, rideMessages),
                  reminders))
       /\ runState' = [u \in Users |-> [r \in Rides |->
              RunStateAfterEvaluation(runState[u][r],
                  QualifiesFor(u, r, userPreferences, cache),
                  r \in RidesQueuedFor(u, rideMessages))]]
       /\ UNCHANGED <<userPreferences, prefOrder, userDeviceTokens,
                      archivedSchedules, now, host, turn>>

\* Preference bodies of the tick's users: a map enabling the ride for both,
\* and a request without a preferences field for the first.
CronMap == [r \in Rides |-> [enabled |-> TRUE, maxWait |-> 30]]
CronPrefs(u) == IF u = TickUser THEN {CronMap, Undefined} ELSE {CronMap}

\* The cron tick next to the requests of two users, to the gateway's answers
\* and to the manual notification check of POST
\* /api/debug/check-notifications (lines 1286-1301), whose first step is
\* checkAndNotifyUsers. The first user has a dining reservation at 00:20
\* with 20 minutes of travel, due when the clock starts.
NextCron ==
    \/ CronFires
    \/ \E outcome \in FetchOutcomes("disneyland") : FetchSettles(outcome)
    \/ \E outcome \in FetchOutcomes("californiaadventure") : TickCompletes(outcome)
    \/ \E u \in Users : \E preferences \in CronPrefs(u) : SavePreferences(u, preferences)
    \/ \E u \in Users : RegisterDevice(u, TickToken)
    \/ AddDining(TickUser, 0, 20, "lunch", 20)
    \/ CheckAndNotifyUsers
    \/ \E i \in 1..(MaxInFlight + 1) : GatewayAnswers(i)

SpecCron == Init /\ [][NextCron]_vars

\* The rides of a snapshot that satisfy user u's stored preference.
ReadyIn(u, cache) == { r \in Rides : QualifiesFor(u, r, userPreferences, cache) }

\* A step of the tick in which the fetch of park p fails.
FetchFailsFor(p) == cron.pos > 0 /\ Parks[cron.pos] = p /\ p \in cron'.failed

\* C22: when the fetch of a park fails, that park's cache keeps its last
\* value and the tick goes on: the next park is fetched and may be stored,
\* and after the last park the evaluators run. A completed evaluation of the
\* tick leaves every evaluated user with the rides ready in the cache as the
\* tick left it, retained snapshot included.
C22_FailedFetchKeepsLastGood ==
    [][ /\ \A p \in ParkNames :
             FetchFailsFor(p) => parkDataCache'[p] = parkDataCache[p]
        /\ (cron.pos \in 1..(Len(Parks) - 1) /\ cron' # cron) =>
             cron'.pos = cron.pos + 1
        /\ (cron.pos = Len(Parks) /\ cron' # cron) =>
             /\ cron'.pos = 0
             /\ lastOp' \in {"cronTick", "cronTickThrew"}
        /\ lastOp' = "cronTick" =>
             \A u \in SeqToSet(prefOrder) :
                ValidToken(u) => notifiedRides'[u] = ReadyIn(u, parkDataCache') ]_vars

\* A tick whose Disneyland fetch failed has just completed; the ride of the
\* snapshot retained from an earlier tick was named to the first user.
C22_Witness ==
    /\ lastOp = "cronTick"
    /\ cron.failed = {"disneyland"}
    /\ parkDataCache["disneyland"]
         = <<[id |-> "R1", status |-> "OPERATING", currentWait |-> 25]>>
    /\ "R1" \in RidesQueuedFor(TickUser, queued)

\* A minute tick is in progress while its refresh awaits a fetch or a
\* dispatcher call awaits the gateway.
TickInProgress == cron.pos > 0 \/ inflight # <<>>

\* A tick starts, or the manual notification check starts its evaluation.
TickOrCheckStarts ==
    lastOp' \in {"cronFires", "checkAndNotifyUsers", "checkAndNotifyUsersThrew"}

\* C28: no tick and no manual notification check starts while a tick is
\* still in progress (refreshing, or dispatching what it queued).
C28_NoOverlap == [][ TickOrCheckStarts => ~TickInProgress ]_vars

\* The step in which a tick's refresh ends and its evaluators run.
TickEvaluates == cron.pos = Len(Parks) /\ cron'.pos = 0

\* Users whose stored preferences are a map and whose token is valid.
KnownRideUsers ==
    { u \in SeqToSet(prefOrder) : ValidToken(u) /\ userPreferences[u] # Undefined }

\* C30: the evaluators of a tick run in the step that ends the refresh of
\* the last park and in no earlier step of the tick; in that step every known
\* user is evaluated against the refreshed cache, every ride newly ready for
\* such a user is named in a message handed to the dispatcher in the same
\* step, and so is every reminder that is due.
C30_TickEvaluatesAllAndHandsOver ==
    [][ /\ (cron.pos > 0 /\ lastOp' \in {"cronTick", "cronTickThrew"}) => TickEvaluates
        /\ TickEvaluates =>
             /\ \A u \in KnownRideUsers :
                  /\ notifiedRides'[u] = ReadyIn(u, parkDataCache')
                  /\ (ReadyIn(u, parkDataCache') \ NotifiedOf(notifiedRides, u))
                        \subseteq RidesQueuedFor(u, queued')
             /\ LET reminders ==
                      ReminderMessages(userDeviceTokens, userShowSchedules,
                          userDiningSchedules, userLightningLanes,
                          getTodayDateString(now), now)
                IN \A k \in 1..Len(reminders) :
                      \E j \in 1..Len(queued') : queued'[j] = reminders[k] ]_vars

\* ------------------------------------------------------------------------
\* The callbacks on one user's schedule store, step by step (SpecSerial)
\* ------------------------------------------------------------------------
\* Does the synchronous section of callback `op` hold an await? The loops of
\* checkEventReminders (lines 615-710) and of autoArchivePastDates (lines
\* 756-771) hold none: the only await of the former is at line 712.
\* Variant: the loops yield between their reads and their writes.
AwaitsInside_Loops(op) == TRUE

AwaitsInside(op) == FALSE

\* The event loop starts a callback when none is part-way.
CallbackStarts == turn.op = "none" \/ AwaitsInside(turn.op)

\* checkEventReminders up to the push of its messages: the flags are read
\* and the messages of the items that fire are collected.
RemindersRead ==
    LET today == getTodayDateString(now)
    IN /\ turn.op = "none"
       /\ CanDispatch
       /\ today \in Dates
       /\ turn' = [op |-> "reminders", user |-> "", date |-> today, t |-> now,
                   messages |-> ReminderMessages(userDeviceTokens, userShowSchedules,
                                    userDiningSchedules, userLightningLanes, today, now)]
       /\ Did("remindersRead", <<>>, dropped)
       /\ UNCHANGED <<rideVars, userDeviceTokens, schedVars, archivedSchedules,
                      now, inflight, runState, host, cron>>

\* The flags the loops set, on the items their messages were pushed for.
ShowsFlagged(shows, msgs, d) ==
    [u \in Users |-> [e \in Dates |->
        IF e = d /\ shows[u][e] # NoList
          THEN [i \in 1..Len(shows[u][e]) |->
                  [shows[u][e][i] EXCEPT
                     !.notified =
                        @ \/ MessagesFor(msgs, u, "show", shows[u][e][i].showId, i) # {},
                     !.finalWarningNotified =
                        @ \/ MessagesFor(msgs, u, "show-warning",
                                         shows[u][e][i].showId, i) # {}]]
          ELSE shows[u][e]]]

DiningFlagged(dinings, msgs, d) ==
    [u \in Users |-> [e \in Dates |->
        IF e = d
          THEN [i \in 1..Len(dinings[u][e]) |->
                  [dinings[u][e][i] EXCEPT
                     !.notified =
                        @ \/ MessagesFor(msgs, u, "dining", dinings[u][e][i].id, i) # {}]]
          ELSE dinings[u][e]]]

LanesFlagged(lanes, msgs, d) ==
    [u \in Users |-> [e \in Dates |->
        IF e = d
          THEN [r \in LaneRides |->
                  IF lanes[u][e][r] = NoEntry THEN NoEntry
                  ELSE [lanes[u][e][r] EXCEPT
                          !.notified =
                             @ \/ MessagesFor(msgs, u, "lightning-lane", r, 0) # {}]]
          ELSE lanes[u][e]]]

\* checkEventReminders from the push of its messages to the await of line
\* 712: the flags are set and the messages go to the dispatcher.
RemindersSet ==
    /\ turn.op = "reminders"
    /\ userShowSchedules' = ShowsFlagged(userShowSchedules, turn.messages, turn.date)
    /\ userDiningSchedules' = DiningFlagged(userDiningSchedules, turn.messages, turn.date)
    /\ userLightningLanes' = LanesFlagged(userLightningLanes, turn.messages, turn.date)
    /\ inflight' = sendPushNotifications(inflight, turn.messages)
    /\ turn' = NoTurn
    /\ Did("checkEventReminders", turn.messages,
           DroppedAfterReminderTick(dropped, turn.messages))
    /\ UNCHANGED <<rideVars, userDeviceTokens, archivedSchedules, now, runState,
                   host, cron>>

\* The (user, date) pairs the sweep has still to archive, and the one its
\* loops reach first.
SweepPending(today) ==
    { x \in Users \X Dates : x[2] \in DatesToArchive(x[1], today) }

SweepRank(x) ==
    (CHOOSE k \in 1..Len(UserOrder) : UserOrder[k] = x[1]) * (MaxDay + 2) + x[2]

NextToArchive(today) ==
    CHOOSE x \in SweepPending(today) :
        \A y \in SweepPending(today) : SweepRank(x) <= SweepRank(y)

\* autoArchivePastDates, lines 760-764: the date is copied to the archive.
SweepCopies ==
    LET today == getTodayDateString(now)
        x == NextToArchive(today)
    IN /\ turn.op \in {"none", "sweepNext"}
       /\ SweepPending(today) # {}
       /\ archivedSchedules' =
            [archivedSchedules EXCEPT ![x[1]][x[2]] = ArchiveEntry(x[1], x[2])]
       /\ turn' = [op |-> "sweepCopied", user |-> x[1], date |-> x[2], t |-> now,
                   messages |-> <<>>]
       /\ Did("sweepCopies", <<>>, <<>>)
       /\ UNCHANGED <<rideVars, userDeviceTokens, schedVars, now, inflight, runState,
                      host, cron>>

\* autoArchivePastDates, lines 766-768: the date is deleted from the three
\* live stores; the loops go on to the next past date, if any.
SweepRemoves ==
    LET u == turn.user
        d == turn.date
        rest == SweepPending(getTodayDateString(now)) \ {<<u, d>>}
    IN /\ turn.op = "sweepCopied"
       /\ userShowSchedules' = [userShowSchedules EXCEPT ![u][d] = NoList]
       /\ userDiningSchedules' = [userDiningSchedules EXCEPT ![u][d] = <<>>]
       /\ userLightningLanes' = [userLightningLanes EXCEPT ![u][d] = NoLanes]
       /\ turn' = IF rest = {} THEN NoTurn ELSE [NoTurn EXCEPT !.op = "sweepNext"]
       /\ Did("autoArchivePastDates", <<>>, <<>>)
       /\ UNCHANGED <<rideVars, userDeviceTokens, archivedSchedules, now, inflight,
                      runState, host, cron>>

\* One user's shows and dining reservations under the reminder evaluation,
\* the sweep and the user's own requests.
NextSerial ==
    \/ RemindersRead
    \/ RemindersSet
    \/ SweepCopies
    \/ SweepRemoves
    \/ CallbackStarts /\ AdvanceClock
    \/ CallbackStarts /\ RegisterDevice(TickUser, TickToken)
    \/ \E d \in Dates : CallbackStarts /\ AddShow(TickUser, d, "S1", TargetTime(d), 20)
    \/ \E d \in Dates : CallbackStarts /\ DeleteShow(TickUser, d, "S1")
    \/ \E d \in Dates : CallbackStarts /\ AddDining(TickUser, d, TargetTime(d), "lunch", 20)
    \/ \E d \in Dates, id \in 1..MaxItems, body \in DiningBodies :
          CallbackStarts /\ UpdateDining(TickUser, d, id, body)
    \/ \E d \in Dates, id \in 1..MaxItems : CallbackStarts /\ DeleteDining(TickUser, d, id)
    \/ \E i \in 1..MaxInFlight : CallbackStarts /\ GatewayAnswers(i)

SpecSerial == Init /\ [][NextSerial]_vars

\* C29: access to a user's schedule store is serialized. While a reminder
\* evaluation or the sweep is part-way, the only step is its own next one;
\* an evaluation hands over exactly the messages of the items that fire in
\* the store as it is when the flags are set, and leaves the flags an
\* evaluation in one piece leaves (no flag update is lost); the sweep removes
\* a date whose content is what it archived.
C29_StoreAccessSerialized ==
    [][ /\ turn.op = "reminders" => lastOp' = "checkEventReminders"
        /\ turn.op = "sweepCopied" => lastOp' = "autoArchivePastDates"
        /\ turn.op = "sweepNext" => lastOp' = "sweepCopies"
        /\ lastOp' = "checkEventReminders" =>
             /\ queued' = ReminderMessages(userDeviceTokens, userShowSchedules,
                              userDiningSchedules, userLightningLanes, turn.date, turn.t)
             /\ userShowSchedules' = ShowsAfterReminders(userDeviceTokens,
                                         userShowSchedules, turn.date, turn.t)
             /\ userDiningSchedules' = DiningAfterReminders(userDeviceTokens,
                                           userDiningSchedules, turn.date, turn.t)
             /\ userLightningLanes' = LanesAfterReminders(userDeviceTokens,
                                          userLightningLanes, turn.date, turn.t)
        /\ lastOp' = "autoArchivePastDates" =>
             archivedSchedules'[turn.user][turn.date] = ArchiveEntry(turn.user, turn.date)
      ]_vars

\* The three kinds of access have followed one another on one date: the
\* sweep has just removed a date it archived with a dining reservation that
\* was updated and then reminded of.
C29_Witness ==
    /\ lastOp = "autoArchivePastDates"
    /\ archivedSchedules[TickUser][0] # NoEntry
    /\ Len(archivedSchedules[TickUser][0].dining) = 1
    /\ archivedSchedules[TickUser][0].dining[1].notified
    /\ archivedSchedules[TickUser][0].dining[1].type = "dinner"

\* ------------------------------------------------------------------------
\* Progress of the minute tick (SpecCronLive)
\* ------------------------------------------------------------------------
\* Every fetch of a refresh settles: axios answers or gives up after its
\* timeout of 10 s (lines 256-264), and the evaluators follow the last one.
\* Nothing of the kind holds for the gateway: expo.sendPushNotificationsAsync
\* is awaited without a timeout (line 725), so a batch is settled only if
\* the gateway answers, and the specification demands no gateway step.
SpecCronLive ==
    /\ Init
    /\ [][NextCron]_vars
    /\ WF_vars(\E outcome \in FetchOutcomes("disneyland") : FetchSettles(outcome))
    /\ WF_vars(\E outcome \in FetchOutcomes("californiaadventure") : TickCompletes(outcome))

\* C31: every minute tick eventually completes, whether or not the upstream
\* source or the gateway answers: a tick that is refreshing or whose
\* dispatcher call awaits the gateway reaches a state where the refresh is
\* over and no dispatcher call is waiting.
C31_TickEventuallyCompletes ==
    TickInProgress ~> (cron.pos = 0 /\ inflight = <<>>)

\* ------------------------------------------------------------------------
\* The archival sweep run again, and what it leaves alone (SpecSched)
\* ------------------------------------------------------------------------
\* C32: the sweep is idempotent. Right after a run of autoArchivePastDates,
\* a second run with the same today would leave the archive and the three
\* live stores exactly as they are.
C32_SweepIdempotent ==
    lastOp = "autoArchivePastDates" =>
       /\ ArchivesAfterSweep = archivedSchedules
       /\ ShowsAfterSweep = userShowSchedules
       /\ DiningAfterSweep = userDiningSchedules
       /\ LanesAfterSweep = userLightningLanes

\* The sweep has just run on day 1 and the archive holds day 0 of a user
\* with a show on it.
C32_Witness ==
    /\ lastOp = "autoArchivePastDates"
    /\ Today = 1
    /\ \E u \in Users :
          /\ archivedSchedules[u][0] # NoEntry
          /\ archivedSchedules[u][0].shows # NoList
          /\ Len(archivedSchedules[u][0].shows) = 1
          /\ userShowSchedules[u][0] = NoList

\* ------------------------------------------------------------------------
\* What the ticks, the dispatcher and the sweep leave alone (SpecFrame)
\* ------------------------------------------------------------------------
\* Two users save preferences; the first registers and unregisters a device
\* and has a show on day 0; ticks, sweep and gateway run in between.
NextFrame ==
    \/ UpdateParkDataCache("disneyland")
    \/ \E u \in Users : \E preferences \in CronPrefs(u) : SavePreferences(u, preferences)
    \/ RegisterDevice(TickUser, TickToken)
    \/ UnregisterDevice(TickUser)
    \/ AdvanceClock
    \/ AddShow(TickUser, 0, "S1", TargetTime(0), 20)
    \/ CheckAndNotifyUsers
    \/ CheckEventReminders
    \/ AutoArchivePastDates
    \/ \E i \in 1..MaxInFlight : GatewayAnswers(i)

SpecFrame == Init /\ [][NextFrame]_vars

\* C33: a user's ride preferences change only by that user's own save. A
\* step that changes userPreferences[u] is a save of u storing the value it
\* was given; ticks, gateway steps, registration changes and the sweep
\* leave every entry, and the order of the entries, as they were.
C33_PreferencesFrame ==
    [][ /\ \A u \in Users :
             userPreferences'[u] # userPreferences[u] =>
                /\ lastOp' = "savePreferences"
                /\ queued'[1].user = u
                /\ userPreferences'[u] = queued'[1].body
        /\ lastOp' # "savePreferences" => UNCHANGED <<userPreferences, prefOrder>> ]_vars

\* The sweep has just archived the first user's day 0 while both users hold
\* the preferences they saved, the second after a tick named a ride to the
\* first.
C33_Witness ==
    /\ lastOp = "autoArchivePastDates"
    /\ archivedSchedules[TickUser][0] # NoEntry
    /\ userPreferences[TickUser] = CronMap
    /\ userPreferences["u2"] = CronMap
    /\ notifiedRides[TickUser] = {"R1"}
    /\ prefOrder = <<"u2", "u1">>

\* ------------------------------------------------------------------------
\* Announcements of the ride engine (SpecRide)
\* ------------------------------------------------------------------------
\* The ride-ready messages of `msgs` for user u that name ride r and are
\* addressed to the given token.
AnnouncedTo(msgs, u, r, token) ==
    { k \in 1..Len(msgs) : /\ msgs[k].type = "ride"
                           /\ msgs[k].user = u
                           /\ msgs[k].to = token
                           /\ r \in SeqToSet(msgs[k].rides) }

\* C34: no lost announcement. Whenever a ride cycle leaves in a user's
\* notified set a ride that was not in it before the cycle, the cycle hands
\* to the dispatcher a ride-ready message naming that ride, addressed to the
\* user's token, whatever the evaluation of the other users does.
C34_NoLostAnnouncement ==
    [][ RideTick =>
          \A u \in Users :
             \A r \in NotifiedOf(notifiedRides', u) \ NotifiedOf(notifiedRides, u) :
                AnnouncedTo(queued', u, r, userDeviceTokens[u]) # {} ]_vars

\* ------------------------------------------------------------------------
\* Order of the two stages of a show (SpecSched)
\* ------------------------------------------------------------------------
\* C35: the final warning of a show is never emitted in an earlier cycle
\* than its main reminder. Whenever an evaluation queues the final warning
\* of a show, the main reminder of that show has been emitted by this or an
\* earlier evaluation (its flag is set when the evaluation ends), whatever
\* the travel time.
C35_WarningNotBeforeReminder ==
    [][ lastOp' = "checkEventReminders" =>
          \A k \in 1..Len(queued') :
             queued'[k].type = "show-warning" =>
                userShowSchedules'[queued'[k].user][Today][queued'[k].index].notified
      ]_vars

\* C35 with its range: for a show whose travel time is at least the five
\* minutes of the final warning, an evaluation that queues the final warning
\* finds the main reminder emitted by this or an earlier evaluation. (With a
\* shorter travel time the threshold of the warning comes first.)
C35_WarningNotBeforeReminderFromFive ==
    [][ lastOp' = "checkEventReminders" =>
          \A k \in 1..Len(queued') :
             queued'[k].type = "show-warning" =>
                LET show == userShowSchedules'[queued'[k].user][Today][queued'[k].index]
                IN show.travelTime >= FinalWarningMinutes => show.notified
      ]_vars

\* An evaluation has just queued the final warning, and nothing else, of a
\* show with 20 minutes of travel whose main reminder an earlier evaluation
\* emitted.
C35_Witness ==
    /\ lastOp = "checkEventReminders"
    /\ Len(queued) = 1
    /\ queued[1].type = "show-warning"
    /\ LET show == userShowSchedules[queued[1].user][Today][queued[1].index]
       IN /\ show.travelTime = 20
          /\ show.notified
          /\ show.finalWarningNotified

\* ------------------------------------------------------------------------
\* The unregistered user under the minute tick (SpecTick)
\* ------------------------------------------------------------------------
\* C36: for a user without a valid registered token, an evaluation of either
\* engine queues no message and leaves the user's notified set and the
\* user's shows, dining reservations and lanes, flags included, as they
\* were.
C36_UnregisteredUntouched ==
    [][ lastOp' \in {"checkAndNotifyUsers", "checkAndNotifyUsersThrew",
                     "checkEventReminders"} =>
          \A u \in Users :
             ~ValidToken(u) =>
                /\ \A k \in 1..Len(queued') : queued'[k].user # u
                /\ notifiedRides'[u] = notifiedRides[u]
                /\ userShowSchedules'[u] = userShowSchedules[u]
                /\ userDiningSchedules'[u] = userDiningSchedules[u]
                /\ userLightningLanes'[u] = userLightningLanes[u] ]_vars

\* The reminder evaluation has just passed over a user who holds no token
\* and has a show of today past its reminder threshold, still unflagged.
C36_Witness ==
    /\ lastOp = "checkEventReminders"
    /\ queued = <<>>
    /\ ~ValidToken(TickUser)
    /\ Today \in Dates
    /\ LET list == ListOf(userShowSchedules, TickUser, Today)
       IN /\ Len(list) = 1
          /\ now >= list[1].selectedTime - list[1].travelTime
          /\ ~list[1].notified

\* ------------------------------------------------------------------------
\* A token replaced while a send is in flight (SpecRide)
\* ------------------------------------------------------------------------
\* C37: when the gateway reports DeviceNotRegistered for a message addressed
\* to a token its user has since replaced by a different one, the new
\* registration stays (unless the same answer reports the new token itself).
C37_NewTokenSurvives ==
    [][ lastOp' = "gatewayAnswers" =>
          \A k \in 1..Len(terminal') :
             LET u == terminal'[k].user
             IN ( /\ ValidToken(u)
                  /\ userDeviceTokens[u] # terminal'[k].to
                  /\ userDeviceTokens[u] \notin InvalidAddresses(terminal') )
                => userDeviceTokens'[u] = userDeviceTokens[u] ]_vars

\* The gateway has just reported the old token of a ride message as not
\* registered, and the user holds the other token, registered meanwhile.
C37_Witness ==
    /\ lastOp = "gatewayAnswers"
    /\ \E k \in 1..Len(terminal) :
          /\ terminal[k].type = "ride"
          /\ terminal[k].user = "u2"
          /\ terminal[k].to = "ExponentPushToken[b]"
          /\ userDeviceTokens["u2"] = "ExponentPushToken[a]"

\* ------------------------------------------------------------------------
\* Which registrations a dispatch removes (SpecRide)
\* ------------------------------------------------------------------------
DispatchStep == lastOp' \in {"gatewayAnswers", "gatewayThrows", "dispatchRejected"}

\* C38 as stated: a dispatch removes a registration only of the user for
\* whom a message reported DeviceNotRegistered was built; every other user's
\* registration is unchanged, and a thrown batch or another kind of error
\* ticket removes none.
C38_OnlyAddressedUserRemoved ==
    [][ DispatchStep =>
          \A u \in Users :
             userDeviceTokens'[u] # userDeviceTokens[u] =>
                /\ lastOp' = "gatewayAnswers"
                /\ userDeviceTokens'[u] = NoToken
                /\ \E k \in 1..Len(terminal') : terminal'[k].user = u ]_vars

\* C38 by address: a dispatch removes a registration only if its token is
\* the address of a message reported DeviceNotRegistered; every other
\* registration is unchanged, and a thrown batch or another kind of error
\* ticket removes none.
C38_OnlyReportedAddressRemoved ==
    [][ DispatchStep =>
          \A u \in Users :
             userDeviceTokens'[u] # userDeviceTokens[u] =>
                /\ lastOp' = "gatewayAnswers"
                /\ userDeviceTokens'[u] = NoToken
                /\ userDeviceTokens[u] \in InvalidAddresses(terminal') ]_vars

\* The gateway has just reported the first user's token as not registered:
\* that registration is gone and the second user keeps a different token.
C38_Witness ==
    /\ lastOp = "gatewayAnswers"
    /\ \E k \in 1..Len(terminal) :
          /\ terminal[k].user = "u1"
          /\ terminal[k].to = "ExponentPushToken[a]"
    /\ userDeviceTokens["u1"] = NoToken
    /\ userDeviceTokens["u2"] = "ExponentPushToken[b]"

\* ------------------------------------------------------------------------
\* What the sweep leaves in the live stores (SpecSweep)
\* ------------------------------------------------------------------------
\* Midnight and show time (14:00) of each day.
SweepInstants ==
    { d * MinutesPerDay : d \in 1..MaxDay } \cup { TargetTime(d) : d \in Dates }

\* Time passes up to one of these instants.
AdvanceClockDaily ==
    /\ \E t \in SweepInstants : t > now /\ now' = t
    /\ Did("clock", <<>>, dropped)
    /\ UNCHANGED <<rideVars, userDeviceTokens, schedVars, archivedSchedules,
                   inflight, runState, procVars>>

\* One user with preferences, a device, shows and dining reservations on
\* either day, reminded at show time and swept.
NextSweep ==
    \/ AdvanceClockDaily
    \/ SavePreferences(TickUser, CronMap)
    \/ RegisterDevice(TickUser, TickToken)
    \/ \E d \in Dates : AddShow(TickUser, d, "S1", TargetTime(d), 20)
    \/ \E d \in Dates : DeleteShow(TickUser, d, "S1")
    \/ \E d \in Dates : AddDining(TickUser, d, TargetTime(d), "lunch", 20)
    \/ CheckEventReminders
    \/ AutoArchivePastDates
    \/ \E i \in 1..MaxInFlight : GatewayAnswers(i)

SpecSweep == Init /\ [][NextSweep]_vars

\* C39: a sweep with today = D leaves every entry of the show, dining and
\* lane stores under a date >= D as it was, flags included, and does not
\* touch preferences, device tokens or notified sets.
C39_SweepFrame ==
    [][ lastOp' = "autoArchivePastDates" =>
          /\ \A u \in Users, d \in Dates :
                d >= Today =>
                   /\ userShowSchedules'[u][d] = userShowSchedules[u][d]
                   /\ userDiningSchedules'[u][d] = userDiningSchedules[u][d]
                   /\ userLightningLanes'[u][d] = userLightningLanes[u][d]
          /\ UNCHANGED <<userPreferences, prefOrder, userDeviceTokens, notifiedRides>>
      ]_vars

\* The sweep has just run on day 1: day 0 is in the archive and out of the
\* live stores, and the dining reservation of day 1, already reminded of, is
\* in place with its flag, as are the preferences and the token.
C39_Witness ==
    /\ lastOp = "autoArchivePastDates"
    /\ Today = 1
    /\ archivedSchedules[TickUser][0] # NoEntry
    /\ userShowSchedules[TickUser][0] = NoList
    /\ Len(userDiningSchedules[TickUser][1]) = 1
    /\ userDiningSchedules[TickUser][1][1].notified
    /\ userPreferences[TickUser] = CronMap
    /\ userDeviceTokens[TickUser] = TickToken

====
